---- MODULE Spec2Model ----
(***************************************************************************)
(* Model of the timesheet tools of productive-mcp                          *)
(* (src/src/tools/time-entries.ts, src/src/api/client.ts).                 *)
(*                                                                         *)
(* Texts that the code inspects character by character (durations, dates)  *)
(* are sequences of one-character strings; identifiers and notes are       *)
(* strings.  An optional value is a sequence of length 0 (undefined) or 1. *)
(***************************************************************************)
EXTENDS Integers, Sequences, FiniteSets, TLC

\* ------------------------------------------------------------------ bounds

\* Longest integer part and longest fraction (in digits) of the duration
\* numbers enumerated for the parser specification.
MaxIntDigits == 1
MaxFracDigits == 3

\* Most create requests (POST time_entries) sent in one behaviour.
MaxPosts == 1

\* Most days the clock advances in one behaviour.
MaxDays == 1

\* Largest minute count rendered and parsed back.
MaxMinutes == 130

\* ------------------------------------------------------------------ state

VARIABLES
  now,                \* the moment new Date() gives
  actor,              \* config.PRODUCTIVE_USER_ID, optional
  pc,                 \* "idle", or "awaiting" while a tool awaits the upstream
  tool,               \* the tool of the current (or last) call
  args,               \* its arguments
  request,            \* the last request it sent, optional
  response,           \* the upstream's answer to it, optional
  outcome,            \* how the call ended
  callRequests,       \* the number of requests the call has sent
  posts,              \* create requests sent to the upstream so far
  created,            \* time entries the upstream has created so far
  performed,          \* the selection tools that have listed something so far
  precededByPreview,  \* the call before this one previewed the same draft
  shown,              \* the preview that call returned, optional
  twin,               \* what the same call does with confirm the other way
  calledOn,           \* the moment the call was made
  durInput,           \* the text given to the duration parser
  durResult,          \* what the parser made of it, optional
  dateToken,          \* the text given to the date parser
  dateResult,         \* what the parser made of it, optional
  taskSprints,        \* the sprint ids the upstream holds for the task
  calls,              \* the add_to_backlog calls: where each stands
  upstream            \* the boards and task lists the upstream holds

vars == <<now, actor, pc, tool, args, request, response, outcome, callRequests,
          posts, created, performed, precededByPreview, shown, twin, calledOn,
          durInput, durResult, dateToken, dateResult,
          taskSprints, calls, upstream>>

compositeVars == <<taskSprints, calls, upstream>>
parserVars == <<durInput, durResult, dateToken, dateResult>>
toolVars == <<now, actor, pc, tool, args, request, response, outcome, callRequests,
              posts, created, performed, precededByPreview, shown, twin, calledOn>>

\* ------------------------------------------------------------ text helpers

None == <<>>
Some(v) == <<v>>
IsSome(o) == Len(o) = 1
Val(o) == o[1]

Digit == {"0", "1", "2", "3", "4", "5", "6", "7", "8", "9"}
Space == {" "}

DigitVal(c) ==
  CASE c = "0" -> 0 [] c = "1" -> 1 [] c = "2" -> 2 [] c = "3" -> 3
    [] c = "4" -> 4 [] c = "5" -> 5 [] c = "6" -> 6 [] c = "7" -> 7
    [] c = "8" -> 8 [] c = "9" -> 9

\* String.prototype.toLowerCase on the letters the inputs use.
LowerChar(c) ==
  CASE c = "H" -> "h" [] c = "M" -> "m" [] c = "T" -> "t" [] c = "Y" -> "y"
    [] c = "B" -> "b" [] c = "C" -> "c" [] c = "G" -> "g" [] c = "K" -> "k"
    [] c = "L" -> "l"
    [] c = "A" -> "a" [] c = "D" -> "d" [] c = "E" -> "e" [] c = "O" -> "o"
    [] c = "R" -> "r" [] c = "S" -> "s" [] c = "U" -> "u" [] c = "X" -> "x"
    [] OTHER -> c

toLowerCase(s) == [i \in 1..Len(s) |-> LowerChar(s[i])]

RECURSIVE trimStart(_)
trimStart(s) ==
  IF s # <<>> /\ Head(s) \in Space THEN trimStart(Tail(s)) ELSE s

RECURSIVE trimEnd(_)
trimEnd(s) ==
  IF s # <<>> /\ s[Len(s)] \in Space THEN trimEnd(SubSeq(s, 1, Len(s) - 1)) ELSE s

trim(s) == trimEnd(trimStart(s))

AllIn(s, S) == \A i \in 1..Len(s) : s[i] \in S

EndsWith(s, u) ==
  Len(s) >= Len(u) /\ SubSeq(s, Len(s) - Len(u) + 1, Len(s)) = u

DropEnd(s, n) == SubSeq(s, 1, Len(s) - n)

\* parseInt(digits, 10) on a string of decimal digits (0 for the empty one).
RECURSIVE parseInt(_)
parseInt(s) ==
  IF s = <<>> THEN 0 ELSE 10 * parseInt(DropEnd(s, 1)) + DigitVal(s[Len(s)])

RECURSIVE Pow10(_)
Pow10(n) == IF n = 0 THEN 1 ELSE 10 * Pow10(n - 1)

\* The regular expression \d*\.?\d+ anchored at both ends.
IsNumber(s) ==
  \/ s # <<>> /\ AllIn(s, Digit)
  \/ \E i \in 1..Len(s) :
       /\ s[i] = "."
       /\ AllIn(SubSeq(s, 1, i - 1), Digit)
       /\ i < Len(s)
       /\ AllIn(SubSeq(s, i + 1, Len(s)), Digit)

\* The regular expression \d+ anchored at both ends.
IsInteger(s) == s # <<>> /\ AllIn(s, Digit)

DotAt(s) == IF \E i \in 1..Len(s) : s[i] = "."
            THEN CHOOSE i \in 1..Len(s) : s[i] = "." ELSE Len(s) + 1

IntDigits(s) == SubSeq(s, 1, DotAt(s) - 1)
FracDigits(s) == SubSeq(s, DotAt(s) + 1, Len(s))

\* ------------------------------------------------- IEEE 754 double numbers
\* A double is kept exactly: m is its significand, most significant bit
\* first (Precision bits, or empty for zero), and e the number of those
\* bits that lie after the binary point, so that its value is m / 2^e.

Precision == 53
MinutesPerHour == 60

\* 2^n for 0 <= n <= 30.
Pow2(n) ==
  <<1, 2, 4, 8, 16, 32, 64, 128, 256, 512, 1024, 2048, 4096, 8192, 16384,
    32768, 65536, 131072, 262144, 524288, 1048576, 2097152, 4194304,
    8388608, 16777216, 33554432, 67108864, 134217728, 268435456,
    536870912, 1073741824>>[n + 1]

\* The bits of n in a field of the given width, most significant first.
FixedBits(n, width) == [i \in 1..width |-> (n \div Pow2(width - i)) % 2]

\* The number of bits of n, 0 <= n < 2^30.
BitLength(n) == CHOOSE k \in 0..30 : Pow2(k) > n /\ (k = 0 \/ Pow2(k - 1) <= n)

Bits(n) == FixedBits(n, BitLength(n))

\* The number a sequence of at most 30 bits stands for.
RECURSIVE BitsToInt(_)
BitsToInt(b) ==
  IF b = <<>> THEN 0
  ELSE IF Len(b) = 1 THEN b[1]
  ELSE LET half == Len(b) \div 2
       IN BitsToInt(SubSeq(b, 1, half)) * Pow2(Len(b) - half)
            + BitsToInt(SubSeq(b, half + 1, Len(b)))

\* b + 1; one bit longer when b is all ones.
IncBits(b) ==
  IF \A i \in 1..Len(b) : b[i] = 1
  THEN <<1>> \o [i \in 1..Len(b) |-> 0]
  ELSE LET p == CHOOSE i \in 1..Len(b) :
                  b[i] = 0 /\ \A j \in (i + 1)..Len(b) : b[j] = 1
       IN [i \in 1..Len(b) |-> IF i < p THEN b[i] ELSE IF i = p THEN 1 ELSE 0]

\* b * k + carry for 0 <= k < 64: the arithmetic goes in limbs of 24 bits,
\* least significant limb first, so that no product passes 2^31.
RECURSIVE MulBitsCarry(_, _, _)
MulBitsCarry(b, k, carry) ==
  IF Len(b) <= 24
  THEN Bits(BitsToInt(b) * k + carry)
  ELSE LET low == BitsToInt(SubSeq(b, Len(b) - 23, Len(b))) * k + carry
       IN MulBitsCarry(SubSeq(b, 1, Len(b) - 24), k, low \div Pow2(24))
            \o FixedBits(low % Pow2(24), 24)

MulBits(b, k) == MulBitsCarry(b, k, 0)

\* The next n bits of the binary expansion of r / D (0 <= r < D <= 10^4),
\* and the remainder left after them: long division, 17 bits at a time.
RECURSIVE FracBits(_, _, _)
FracBits(r, D, n) ==
  IF n = 0 THEN [bits |-> <<>>, rem |-> r]
  ELSE LET w == IF n < 17 THEN n ELSE 17
           scaled == r * Pow2(w)
           rest == FracBits(scaled % D, D, n - w)
       IN [bits |-> FixedBits(scaled \div D, w) \o rest.bits, rem |-> rest.rem]

\* The number of zero bits that open the binary expansion of r / D, 0 < r < D.
RECURSIVE LeadingZeros(_, _)
LeadingZeros(r, D) == IF 2 * r >= D THEN 0 ELSE 1 + LeadingZeros(2 * r, D)

Zero == [m |-> <<>>, e |-> 0]

\* Round-to-nearest, ties to even: sb holds Precision significant bits, e of
\* them after the point; up says whether what was cut off rounds upwards.
RoundSignificand(sb, e, up) ==
  IF ~up THEN [m |-> sb, e |-> e]
  ELSE LET inc == IncBits(sb)
       IN IF Len(inc) > Precision
          THEN [m |-> DropEnd(inc, 1), e |-> e - 1]
          ELSE [m |-> inc, e |-> e]

\* parseFloat on a text matching \d*\.?\d+: the double nearest to N / D.
parseFloat(s) ==
  LET N == parseInt(IntDigits(s) \o FracDigits(s))
      D == Pow10(Len(FracDigits(s)))
      I == N \div D
      r == N % D
      ib == Bits(I)
      z == IF I = 0 /\ r > 0 THEN LeadingZeros(r, D) ELSE 0
      n == Precision - Len(ib)
      fb == FracBits(r * Pow2(z), D, n)
      sb == ib \o fb.bits
      up == \/ 2 * fb.rem > D
            \/ 2 * fb.rem = D /\ sb[Precision] = 1
  IN IF N = 0 THEN Zero ELSE RoundSignificand(sb, n + z, up)

\* x * k for a small whole number k, rounded to the nearest double.
Multiply(x, k) ==
  LET P == MulBits(x.m, k)
      cut == Len(P) - Precision
      kept == SubSeq(P, 1, Precision)
      up == /\ cut > 0
            /\ P[Precision + 1] = 1
            /\ \/ kept[Precision] = 1
               \/ \E i \in (Precision + 2)..Len(P) : P[i] = 1
  IN IF x.m = <<>> THEN Zero ELSE RoundSignificand(kept, x.e - cut, up)

\* Math.round on a double x >= 0 below 2^31: the nearest whole number, a
\* fraction of exactly one half going up.
MathRound(x) ==
  LET intLen == Len(x.m) - x.e
  IN IF x.m = <<>> \/ intLen < 0 THEN 0
     ELSE BitsToInt(SubSeq(x.m, 1, intLen)) + x.m[intLen + 1]

\* --------------------------------------------------------- duration parser

HourUnits == {<<"h">>, <<"h", "o", "u", "r">>, <<"h", "o", "u", "r", "s">>}
MinuteUnits == {<<"m">>, <<"m", "i", "n", "u", "t", "e">>,
                <<"m", "i", "n", "u", "t", "e", "s">>}

\* input matches ^(B)\s*(unit)$ with B one of the texts Body accepts:
\* the set of the texts the group can capture.
Captures(input, Units, Body(_)) ==
  {trimEnd(DropEnd(input, Len(u))) :
     u \in {v \in Units : EndsWith(input, v) /\ Body(trimEnd(DropEnd(input, Len(v))))}}

hourMatch(input) == Captures(input, HourUnits, IsNumber)

\* A minute pattern that lets a decimal fraction through and captures the
\* whole part of the number.
minuteMatchWholePart(input) ==
  {IntDigits(c) : c \in Captures(input, MinuteUnits, IsNumber)}

minuteMatch(input) == Captures(input, MinuteUnits, IsInteger)
decimalMatch(input) == IF IsNumber(input) THEN {input} ELSE {}

Capture(match) == CHOOSE c \in match : TRUE

NumberTimes60(text) == MathRound(Multiply(parseFloat(text), MinutesPerHour))

\* A parser that reads a bare number as minutes.
parseTimeBareAsMinutes(timeInput) ==
  LET input == trim(toLowerCase(timeInput))
  IN IF hourMatch(input) # {}
       THEN [ok |-> TRUE, minutes |-> NumberTimes60(Capture(hourMatch(input)))]
     ELSE IF minuteMatch(input) # {}
       THEN [ok |-> TRUE, minutes |-> parseInt(Capture(minuteMatch(input)))]
     ELSE IF decimalMatch(input) # {}
       THEN [ok |-> TRUE, minutes |-> parseInt(IntDigits(Capture(decimalMatch(input))))]
     ELSE [ok |-> FALSE, message |-> "Invalid time format", value |-> timeInput]

\* parseTimeToMinutes: [ok |-> TRUE, minutes |-> n], or the Error thrown.
parseTimeToMinutes(timeInput) ==
  LET input == trim(toLowerCase(timeInput))
  IN IF hourMatch(input) # {}
       THEN [ok |-> TRUE, minutes |-> NumberTimes60(Capture(hourMatch(input)))]
     ELSE IF minuteMatch(input) # {}
       THEN [ok |-> TRUE, minutes |-> parseInt(Capture(minuteMatch(input)))]
     ELSE IF decimalMatch(input) # {}
       THEN [ok |-> TRUE, minutes |-> NumberTimes60(Capture(decimalMatch(input)))]
     ELSE [ok |-> FALSE, message |-> "Invalid time format", value |-> timeInput]


\* ----------------------------------------------------------------- dates
\* A date is a calendar day [year, month, day].  A moment of the system clock
\* is the UTC calendar day and hour it shows, with shift: the offset of the
\* local time zone from UTC at that moment minus its offset at the same local
\* time one day earlier, in hours (0 but across a daylight-saving change).

IsLeap(y) == (y % 4 = 0 /\ y % 100 # 0) \/ y % 400 = 0

DaysInMonth(y, m) ==
  IF m = 2 THEN (IF IsLeap(y) THEN 29 ELSE 28)
  ELSE IF m \in {4, 6, 9, 11} THEN 30 ELSE 31

NextDay(d) ==
  IF d.day < DaysInMonth(d.year, d.month) THEN [d EXCEPT !.day = d.day + 1]
  ELSE IF d.month < 12 THEN [year |-> d.year, month |-> d.month + 1, day |-> 1]
  ELSE [year |-> d.year + 1, month |-> 1, day |-> 1]

\* The calendar day before d.
PrevDay(d) ==
  IF d.day > 1 THEN [d EXCEPT !.day = d.day - 1]
  ELSE IF d.month > 1
    THEN [year |-> d.year, month |-> d.month - 1,
          day |-> DaysInMonth(d.year, d.month - 1)]
  ELSE [year |-> d.year - 1, month |-> 12, day |-> 31]

DigitChar(n) == CHOOSE c \in Digit : DigitVal(c) = n

\* Number.prototype.toString for n >= 0.
RECURSIVE IntToChars(_)
IntToChars(n) ==
  IF n < 10 THEN <<DigitChar(n)>> ELSE IntToChars(n \div 10) \o <<DigitChar(n % 10)>>

RECURSIVE PadZeros(_, _)
PadZeros(s, width) == IF Len(s) >= width THEN s ELSE PadZeros(<<"0">> \o s, width)

\* toISOString().split('T')[0]
ISODate(d) ==
  PadZeros(IntToChars(d.year), 4) \o <<"-">> \o PadZeros(IntToChars(d.month), 2)
    \o <<"-">> \o PadZeros(IntToChars(d.day), 2)

Moment(day, hour, shift) == [day |-> day, hour |-> hour, shift |-> shift]

\* today.toISOString().split('T')[0]: the UTC calendar day of the moment.
UTCDay(today) == today.day

\* new Date(today) with setDate(getDate() - 1), then toISOString(): setDate
\* keeps the local time of day and moves the local date one day back, which is
\* 24 - shift hours back; the UTC calendar day of that moment is returned.
YesterdayUTCDay(today) ==
  LET hour == today.hour + today.shift
  IN IF hour >= 24 THEN today.day
     ELSE IF hour < 0 THEN PrevDay(PrevDay(today.day))
     ELSE PrevDay(today.day)

TodayText == <<"t", "o", "d", "a", "y">>
YesterdayText == <<"y", "e", "s", "t", "e", "r", "d", "a", "y">>

\* The regular expression ^(\d{4})-(\d{2})-(\d{2})$.
dateMatch(input) ==
  /\ Len(input) = 10
  /\ input[5] = "-" /\ input[8] = "-"
  /\ AllIn(SubSeq(input, 1, 4) \o SubSeq(input, 6, 7) \o SubSeq(input, 9, 10), Digit)

\* A parser that also checks the day against the length of the month.
parseDateCalendar(dateInput, today) ==
  LET input == trim(toLowerCase(dateInput))
      year == parseInt(SubSeq(input, 1, 4))
      month == parseInt(SubSeq(input, 6, 7))
      day == parseInt(SubSeq(input, 9, 10))
  IN IF input = TodayText THEN [ok |-> TRUE, date |-> ISODate(UTCDay(today))]
     ELSE IF input = YesterdayText
       THEN [ok |-> TRUE, date |-> ISODate(YesterdayUTCDay(today))]
     ELSE IF dateMatch(input)
       THEN IF month < 1 \/ month > 12 \/ day < 1 \/ day > DaysInMonth(year, month)
            THEN [ok |-> FALSE, message |-> "Invalid date", value |-> dateInput]
            ELSE [ok |-> TRUE, date |-> input]
     ELSE [ok |-> FALSE, message |-> "Invalid date format", value |-> dateInput]

\* parseDate, with the moment new Date() gives passed as today:
\* [ok |-> TRUE, date |-> text], or the Error thrown.
parseDate(dateInput, today) ==
  LET input == trim(toLowerCase(dateInput))
      month == parseInt(SubSeq(input, 6, 7))
      day == parseInt(SubSeq(input, 9, 10))
  IN IF input = TodayText THEN [ok |-> TRUE, date |-> ISODate(UTCDay(today))]
     ELSE IF input = YesterdayText
       THEN [ok |-> TRUE, date |-> ISODate(YesterdayUTCDay(today))]
     ELSE IF dateMatch(input)
       THEN IF month < 1 \/ month > 12 \/ day < 1 \/ day > 31
            THEN [ok |-> FALSE, message |-> "Invalid date", value |-> dateInput]
            ELSE [ok |-> TRUE, date |-> input]
     ELSE [ok |-> FALSE, message |-> "Invalid date format", value |-> dateInput]

\* ------------------------------------------------------ duration rendering

\* Every duration printed in minutes.
timeDisplayMinutesOnly(total) == IntToChars(total) \o <<"m">>

\* Both units printed whenever there is an hour, a zero minute count too.
timeDisplayBothUnits(total) ==
  LET hours == total \div 60
      minutes == total % 60
  IN IF hours > 0
     THEN IntToChars(hours) \o <<"h", " ">> \o IntToChars(minutes) \o <<"m">>
     ELSE IntToChars(minutes) \o <<"m">>

\* hours > 0 ? (minutes > 0 ? `${hours}h ${minutes}m` : `${hours}h`) : `${minutes}m`
timeDisplay(total) ==
  LET hours == total \div 60
      minutes == total % 60
  IN IF hours > 0
     THEN IF minutes > 0
          THEN IntToChars(hours) \o <<"h", " ">> \o IntToChars(minutes) \o <<"m">>
          ELSE IntToChars(hours) \o <<"h">>
     ELSE IntToChars(minutes) \o <<"m">>


\* ------------------------------------------------------------ tool inputs

Chars2(a, b) == <<a, b>>
Chars3(a, b, c) == <<a, b, c>>

\* The duration texts the tool calls of the model use.
ToolDurations ==
  {Chars2("2", "h"), Chars3("9", "0", "m"), Chars3("2", ".", "5"), Chars3("a", "b", "c"),
   Chars2("1", "h"), Chars3("x", "y", "z"), <<"0">>, Chars2("0", "h"),
   Chars2("0", "m")}

\* parseTimeToMinutes, evaluated once for each text the tool calls use.
DurationTable == [t \in ToolDurations |-> parseTimeToMinutes(t)]

ParsedDuration(t) ==
  IF t \in ToolDurations THEN DurationTable[t] ELSE parseTimeToMinutes(t)

ExplicitDate == <<"2", "0", "2", "4", "-", "0", "1", "-", "1", "5">>
Month13Date == <<"2", "0", "2", "4", "-", "1", "3", "-", "0", "1">>

LongNote == "Implemented caching layer"
ShortNote == "Fix typo"

\* A complete, valid, unconfirmed call; the calls of the model differ from it
\* in at most one argument besides confirm, or are one of TwoFaultArgs.
BaseArgs ==
  [date |-> Some(TodayText), time |-> Some(Chars2("2", "h")), person_id |-> Some("me"),
   service_id |-> Some("S1"), task_id |-> None, note |-> Some(LongNote),
   billable_time |-> None, confirm |-> None]

Alternatives ==
  [date |-> {Some(ExplicitDate), Some(Month13Date), None},
   time |-> {Some(Chars3("9", "0", "m")), Some(Chars3("2", ".", "5")),
             Some(Chars3("a", "b", "c")), Some(<<"0">>), Some(Chars2("0", "h")),
             Some(Chars2("0", "m")), None},
   person_id |-> {Some("99"), None},
   service_id |-> {Some(""), None},
   task_id |-> {Some("T7"), Some("")},
   note |-> {Some(ShortNote), None},
   billable_time |-> {Some(Chars2("1", "h")), Some(Chars3("x", "y", "z")), Some(<<>>)}]

OneFaultArgs ==
  {BaseArgs} \cup
  UNION {{[BaseArgs EXCEPT ![f] = v] : v \in Alternatives[f]} : f \in DOMAIN Alternatives}

TwoFaultArgs ==
  {[BaseArgs EXCEPT !.date = Some(Month13Date), !.time = Some(Chars3("a", "b", "c"))],
   [BaseArgs EXCEPT !.service_id = None, !.note = Some(ShortNote)],
   [BaseArgs EXCEPT !.task_id = Some("T7"), !.billable_time = Some(Chars2("1", "h"))],
   [BaseArgs EXCEPT !.note = Some(ShortNote), !.time = Some(Chars3("a", "b", "c"))]}

ConfirmValues == {None, Some(FALSE), Some(TRUE)}

CreateArgs ==
  {[a EXCEPT !.confirm = c] : a \in OneFaultArgs \cup TwoFaultArgs, c \in ConfirmValues}

ListTimeEntriesArgs ==
  {[person_id |-> p] : p \in {None, Some("me"), Some("99"), Some("")}}

ProjectDealsArgs ==
  {[project_id |-> p, budget_type |-> b] :
     p \in {None, Some(""), Some("P1")}, b \in {None, Some(0), Some(1), Some(2), Some(3)}}

DealServicesArgs == {[deal_id |-> d] : d \in {None, Some(""), Some("D1")}}

Actors == {None, Some("42")}

FirstDay == [year |-> 2024, month |-> 2, day |-> 29]

\* The clock of the tool calls starts at noon UTC, away from a change of the
\* zone's offset.
FirstMoment == Moment(FirstDay, 12, 0)

MinNoteLength == 10

\* z.string().min(n, message) on an optional argument: the issues raised.
StringMin(path, v, n, message) ==
  IF ~IsSome(v) THEN <<[path |-> path, message |-> "Required"]>>
  ELSE IF Len(Val(v)) < n THEN <<[path |-> path, message |-> message]>>
  ELSE <<>>

\* The schema with service_id declared z.string(), its .min(1) forgotten.
SchemaServiceUnchecked(a) ==
  StringMin("date", a.date, 1, "Date is required")
    \o StringMin("time", a.time, 1, "Time is required")
    \o StringMin("person_id", a.person_id, 1, "Person ID is required")
    \o StringMin("service_id", a.service_id, 0, "Service ID is required")
    \o StringMin("note", a.note, MinNoteLength,
                 "Work description must be at least 10 characters")

\* The schema with note declared .min(1) instead of .min(10).
SchemaShortNote(a) ==
  StringMin("date", a.date, 1, "Date is required")
    \o StringMin("time", a.time, 1, "Time is required")
    \o StringMin("person_id", a.person_id, 1, "Person ID is required")
    \o StringMin("service_id", a.service_id, 1, "Service ID is required")
    \o StringMin("note", a.note, 1, "Work description must be at least 10 characters")

\* createTimeEntrySchema.parse(args): the issues of the ZodError, or none.
createTimeEntrySchema(a) ==
  StringMin("date", a.date, 1, "Date is required")
    \o StringMin("time", a.time, 1, "Time is required")
    \o StringMin("person_id", a.person_id, 1, "Person ID is required")
    \o StringMin("service_id", a.service_id, 1, "Service ID is required")
    \o StringMin("note", a.note, MinNoteLength,
                 "Work description must be at least 10 characters")

\* The parsed object: required fields unwrapped, confirm defaulting to false.
Params(a) ==
  [date |-> Val(a.date), time |-> Val(a.time), person_id |-> Val(a.person_id),
   service_id |-> Val(a.service_id), task_id |-> a.task_id, note |-> Val(a.note),
   billable_time |-> a.billable_time,
   confirm |-> IF IsSome(a.confirm) THEN Val(a.confirm) ELSE FALSE]

\* confirm is present and true (absent and false both leave the call unconfirmed).
ConfirmFlag(a) == a.confirm = Some(TRUE)

\* JavaScript truthiness of an optional string: present and not empty.
Truthy(o) == IsSome(o) /\ Len(Val(o)) > 0

\* ------------------------------------------------------------ error values

Message(text, value) == [text |-> text, value |-> value]

\* What the try block throws: a ZodError, an McpError or a plain Error.
Thrown(class, messages) == [class |-> class, messages |-> messages]

ZodMessages(issues) == [i \in 1..Len(issues) |-> Message(issues[i].message, <<>>)]

\* The catch block of a tool: a ZodError becomes InvalidParams, every other
\* error (an McpError thrown by the try block too) becomes InternalError
\* carrying the message of the error caught.
Catch(thrown) ==
  IF thrown.class = "ZodError"
  THEN [kind |-> "error", code |-> "InvalidParams", prefix |-> "Invalid parameters",
        caught |-> thrown.class, messages |-> thrown.messages]
  ELSE [kind |-> "error", code |-> "InternalError", prefix |-> "",
        caught |-> thrown.class, messages |-> thrown.messages]

\* ----------------------------------------------------------- api client

Request(method, path, payload) == [method |-> method, path |-> path, payload |-> payload]

\* ProductiveAPIClient.createTimeEntry: one POST of the body to time_entries.
createTimeEntry(timeEntryData) == Request("POST", "time_entries", timeEntryData)

\* A client that asks for budgets when the caller names no budget type.
listProjectDealsDefaultBudget(params) ==
  Request("GET", "deals",
          [project_id |-> Some(params.project_id),
           deal_id |-> None,
           budget_type |-> IF IsSome(params.budget_type) /\ Val(params.budget_type) # 0
                           THEN params.budget_type ELSE Some(2)])

\* ProductiveAPIClient.listProjectDeals: one GET of deals; the budget type
\* filter is added only for a truthy budget_type.
listProjectDeals(params) ==
  Request("GET", "deals",
          [project_id |-> Some(params.project_id),
           deal_id |-> None,
           budget_type |-> IF IsSome(params.budget_type) /\ Val(params.budget_type) # 0
                           THEN params.budget_type ELSE None])

\* ProductiveAPIClient.listDealServices: one GET of services.
listDealServices(params) ==
  Request("GET", "services",
          [project_id |-> None, deal_id |-> Some(params.deal_id), budget_type |-> None])

\* A client that replaces every upstream detail by its own text.
makeRequestGeneric(r) ==
  IF r.kind = "ok" THEN [ok |-> TRUE, data |-> r]
  ELSE [ok |-> FALSE,
        thrown |-> Thrown("Error", <<Message("Unknown error occurred while making API request",
                                             <<>>)>>)]

\* ProductiveAPIClient.makeRequest on the answer r to the request: the JSON
\* returned, or the Error thrown.  Nothing is sent again.
makeRequest(r) ==
  IF r.kind = "ok" THEN [ok |-> TRUE, data |-> r]
  ELSE IF r.kind = "http_error"
    THEN [ok |-> FALSE,
          thrown |-> Thrown("Error",
                     <<IF IsSome(r.detail) THEN Message(Val(r.detail), <<>>)
                       ELSE Message("API request failed with status", IntToChars(r.status))>>)]
  ELSE [ok |-> FALSE, thrown |-> Thrown("Error", <<Message("fetch failed", <<>>)>>)]

\* ----------------------------------------------------- create_time_entry

\* What a tool has done when it returns or first awaits: the requests it has
\* sent, and its outcome when it has ended (none while it awaits the answer).
Returned(result) == [sent |-> <<>>, outcome |-> Some(result)]
Awaiting(req) == [sent |-> <<req>>, outcome |-> None]

\* The "me" reference of person_id.
ResolvePerson(params, userId) ==
  IF params.person_id = "me"
  THEN IF ~Truthy(userId)
       THEN [ok |-> FALSE,
             thrown |-> Thrown("McpError", <<Message("Cannot use \"me\" reference", <<>>)>>)]
       ELSE [ok |-> TRUE, personId |-> Val(userId)]
  ELSE [ok |-> TRUE, personId |-> params.person_id]

\* The gate left out: every call that passes the checks creates.
AlwaysConfirmed(params) == TRUE

\* A gate with memory: confirm counts only right after a preview.
ConfirmedAfterPreview(params) ==
  params.confirm /\ tool = "create_time_entry" /\ outcome.kind = "preview"

\* if (!params.confirm): the gate between the preview and the create call.
Confirmed(params) == params.confirm

PreviewText(params, personId, parsedDate, timeInMinutes, billable) ==
  [kind |-> "preview",
   date |-> parsedDate,
   time |-> timeDisplay(timeInMinutes),
   billable |-> IF IsSome(billable) THEN Some(timeDisplay(Val(billable))) ELSE None,
   person |-> personId,
   me |-> params.person_id = "me",
   service |-> params.service_id,
   task |-> IF Truthy(params.task_id) THEN params.task_id ELSE None,
   note |-> IF Len(params.note) > 0 THEN Some(params.note) ELSE None]

\* The task relationship added for every task_id that is not undefined, the
\* empty one too.
TimeEntryDataAnyTask(params, personId, parsedDate, timeInMinutes, billable) ==
  [type |-> "time_entries",
   attributes |-> [date |-> parsedDate,
                   time |-> timeInMinutes,
                   billable_time |-> billable,
                   note |-> IF Len(params.note) > 0 THEN Some(params.note) ELSE None],
   relationships |-> [person |-> personId,
                      service |-> params.service_id,
                      task |-> params.task_id]]

\* The person relationship filled with person_id as given, "me" included.
TimeEntryDataRawPerson(params, personId, parsedDate, timeInMinutes, billable) ==
  [type |-> "time_entries",
   attributes |-> [date |-> parsedDate,
                   time |-> timeInMinutes,
                   billable_time |-> billable,
                   note |-> IF Len(params.note) > 0 THEN Some(params.note) ELSE None],
   relationships |-> [person |-> params.person_id,
                      service |-> params.service_id,
                      task |-> IF Truthy(params.task_id) THEN params.task_id ELSE None]]

TimeEntryData(params, personId, parsedDate, timeInMinutes, billable) ==
  [type |-> "time_entries",
   attributes |-> [date |-> parsedDate,
                   time |-> timeInMinutes,
                   billable_time |-> billable,
                   note |-> IF Len(params.note) > 0 THEN Some(params.note) ELSE None],
   relationships |-> [person |-> personId,
                      service |-> params.service_id,
                      task |-> IF Truthy(params.task_id) THEN params.task_id ELSE None]]

\* The billable time checked only on the way to the create call: a preview
\* shows no billable time when the text is not recognised.
NormalizeLenient(a, userId, today) ==
  LET issues == createTimeEntrySchema(a)
      params == Params(a)
      person == ResolvePerson(params, userId)
      date == parseDate(params.date, today)
      time == ParsedDuration(params.time)
      hasBillable == Truthy(params.billable_time)
      billableTime == ParsedDuration(Val(params.billable_time))
  IN IF issues # <<>>
       THEN [ok |-> FALSE, thrown |-> Thrown("ZodError", ZodMessages(issues))]
     ELSE IF ~person.ok THEN [ok |-> FALSE, thrown |-> person.thrown]
     ELSE IF ~date.ok
       THEN [ok |-> FALSE, thrown |-> Thrown("McpError", <<Message(date.message, date.value)>>)]
     ELSE IF ~time.ok
       THEN [ok |-> FALSE, thrown |-> Thrown("McpError", <<Message(time.message, time.value)>>)]
     ELSE IF hasBillable /\ ~billableTime.ok /\ params.confirm
       THEN [ok |-> FALSE,
             thrown |-> Thrown("McpError",
                          <<Message("Invalid billable time format", billableTime.value)>>)]
     ELSE [ok |-> TRUE, params |-> params, personId |-> person.personId,
           parsedDate |-> date.date, timeInMinutes |-> time.minutes,
           billable |-> IF hasBillable /\ billableTime.ok
                        THEN Some(billableTime.minutes) ELSE None]

\* A zero duration refused as an invalid time.
NormalizeRejectsZero(a, userId, today) ==
  LET issues == createTimeEntrySchema(a)
      params == Params(a)
      person == ResolvePerson(params, userId)
      date == parseDate(params.date, today)
      time == ParsedDuration(params.time)
      hasBillable == Truthy(params.billable_time)
      billableTime == ParsedDuration(Val(params.billable_time))
  IN IF issues # <<>>
       THEN [ok |-> FALSE, thrown |-> Thrown("ZodError", ZodMessages(issues))]
     ELSE IF ~person.ok THEN [ok |-> FALSE, thrown |-> person.thrown]
     ELSE IF ~date.ok
       THEN [ok |-> FALSE, thrown |-> Thrown("McpError", <<Message(date.message, date.value)>>)]
     ELSE IF ~time.ok
       THEN [ok |-> FALSE, thrown |-> Thrown("McpError", <<Message(time.message, time.value)>>)]
     ELSE IF time.minutes = 0
       THEN [ok |-> FALSE,
             thrown |-> Thrown("McpError", <<Message("Invalid time format", params.time)>>)]
     ELSE IF hasBillable /\ ~billableTime.ok
       THEN [ok |-> FALSE,
             thrown |-> Thrown("McpError",
                          <<Message("Invalid billable time format", billableTime.value)>>)]
     ELSE [ok |-> TRUE, params |-> params, personId |-> person.personId,
           parsedDate |-> date.date, timeInMinutes |-> time.minutes,
           billable |-> IF hasBillable THEN Some(billableTime.minutes) ELSE None]

\* The try block of createTimeEntryTool down to the confirmation gate: the
\* schema, the "me" reference, the date, the time and the billable time, in
\* this order; the first failure is thrown.
Normalize(a, userId, today) ==
  LET issues == createTimeEntrySchema(a)
      params == Params(a)
      person == ResolvePerson(params, userId)
      date == parseDate(params.date, today)
      time == ParsedDuration(params.time)
      hasBillable == Truthy(params.billable_time)
      billableTime == ParsedDuration(Val(params.billable_time))
  IN IF issues # <<>>
       THEN [ok |-> FALSE, thrown |-> Thrown("ZodError", ZodMessages(issues))]
     ELSE IF ~person.ok THEN [ok |-> FALSE, thrown |-> person.thrown]
     ELSE IF ~date.ok
       THEN [ok |-> FALSE, thrown |-> Thrown("McpError", <<Message(date.message, date.value)>>)]
     ELSE IF ~time.ok
       THEN [ok |-> FALSE, thrown |-> Thrown("McpError", <<Message(time.message, time.value)>>)]
     ELSE IF hasBillable /\ ~billableTime.ok
       THEN [ok |-> FALSE,
             thrown |-> Thrown("McpError",
                          <<Message("Invalid billable time format", billableTime.value)>>)]
     ELSE [ok |-> TRUE, params |-> params, personId |-> person.personId,
           parsedDate |-> date.date, timeInMinutes |-> time.minutes,
           billable |-> IF hasBillable THEN Some(billableTime.minutes) ELSE None]

\* The create call made as soon as the schema is passed, before the "me"
\* reference, the date and the times are checked.
createTimeEntrySendsFirst(a, userId, today) ==
  LET n == Normalize(a, userId, today)
      raw == createTimeEntry([type |-> "time_entries", attributes |-> [date |-> a.date],
                              relationships |-> [service |-> a.service_id]])
  IN IF ~n.ok
       THEN [sent |-> IF createTimeEntrySchema(a) = <<>> /\ ConfirmFlag(a)
                      THEN <<raw>> ELSE <<>>,
             outcome |-> Some(Catch(n.thrown))]
     ELSE IF ~Confirmed(n.params)
       THEN Returned(PreviewText(n.params, n.personId, n.parsedDate,
                                 n.timeInMinutes, n.billable))
     ELSE Awaiting(createTimeEntry(
            TimeEntryData(n.params, n.personId, n.parsedDate,
                          n.timeInMinutes, n.billable)))

\* The confirmation gate applied to the checked arguments n: the preview is
\* returned, or the one create call is made.
ConfirmationGate(n) ==
  IF ~n.ok THEN Returned(Catch(n.thrown))
  ELSE IF ~Confirmed(n.params)
    THEN Returned(PreviewText(n.params, n.personId, n.parsedDate,
                              n.timeInMinutes, n.billable))
  ELSE Awaiting(createTimeEntry(
         TimeEntryData(n.params, n.personId, n.parsedDate,
                       n.timeInMinutes, n.billable)))

\* createTimeEntryTool up to its return or its one await; the checked
\* arguments are computed once and handed to the gate.
createTimeEntryTool(a, userId, today) ==
  CHOOSE r \in {ConfirmationGate(n) : n \in {Normalize(a, userId, today)}} : TRUE

\* The billable time of an entry the upstream returned, shown when it is there
\* and differs from the time.
BillableDisplay(attributes) ==
  IF IsSome(attributes.billable_time) /\ Val(attributes.billable_time) # attributes.time
  THEN Some(timeDisplay(Val(attributes.billable_time))) ELSE None

\* createTimeEntryTool from the answer to its create call to its end.
createTimeEntryResume(a, userId, r) ==
  LET result == makeRequest(r)
      params == Params(a)
  IN IF ~result.ok THEN Catch(result.thrown)
     ELSE [kind |-> "created",
           id |-> result.data.id,
           date |-> result.data.attributes.date,
           time |-> timeDisplay(result.data.attributes.time),
           billable |-> BillableDisplay(result.data.attributes),
           person |-> ResolvePerson(params, userId).personId,
           me |-> params.person_id = "me" /\ Truthy(userId),
           service |-> params.service_id,
           task |-> IF Truthy(params.task_id) THEN params.task_id ELSE None]


\* ------------------------------------------- list_project_deals and services

\* z.number().int().min(1).max(2).optional()
BudgetTypeIssues(v) ==
  IF ~IsSome(v) THEN <<>>
  ELSE IF Val(v) < 1
    THEN <<[path |-> "budget_type", message |-> "Number must be greater than or equal to 1"]>>
  ELSE IF Val(v) > 2
    THEN <<[path |-> "budget_type", message |-> "Number must be less than or equal to 2"]>>
  ELSE <<>>

listProjectDealsSchema(a) ==
  StringMin("project_id", a.project_id, 1, "Project ID is required")
    \o BudgetTypeIssues(a.budget_type)

\* The schema with deal_id declared z.string(), its .min(1) forgotten.
listDealServicesSchemaUnchecked(a) ==
  StringMin("deal_id", a.deal_id, 0, "Deal/Budget ID is required")

listDealServicesSchema(a) ==
  StringMin("deal_id", a.deal_id, 1, "Deal/Budget ID is required")

\* listProjectDealsTool up to its return or its one await.
listProjectDealsTool(a) ==
  LET issues == listProjectDealsSchema(a)
  IN IF issues # <<>> THEN Returned(Catch(Thrown("ZodError", ZodMessages(issues))))
     ELSE Awaiting(listProjectDeals(
            [project_id |-> Val(a.project_id), budget_type |-> a.budget_type]))

\* listDealServicesTool up to its return or its one await.
listDealServicesTool(a) ==
  LET issues == listDealServicesSchema(a)
  IN IF issues # <<>> THEN Returned(Catch(Thrown("ZodError", ZodMessages(issues))))
     ELSE Awaiting(listDealServices([deal_id |-> Val(a.deal_id)]))

\* A list tool from the answer to its request to its end.
listResume(r) ==
  LET result == makeRequest(r)
  IN IF ~result.ok THEN Catch(result.thrown)
     ELSE [kind |-> "listed", count |-> result.data.count]

\* ------------------------------------------------------- list_time_entries

\* ProductiveAPIClient.listTimeEntries: one GET of time_entries; the person
\* filter is added only for a truthy person_id.
listTimeEntries(params) ==
  Request("GET", "time_entries",
          [person_id |-> IF Truthy(params.person_id) THEN params.person_id ELSE None])

\* The configured user id put in the place of every person_id.
ListPersonConfiguredWins(personId, userId) ==
  IF ~Truthy(userId)
  THEN [ok |-> FALSE,
        thrown |-> Thrown("McpError", <<Message("Cannot use \"me\" reference", <<>>)>>)]
  ELSE [ok |-> TRUE, personId |-> userId]

\* The "me" reference of person_id in listTimeEntresTool; person_id is
\* optional there.
ListPerson(personId, userId) ==
  IF personId = Some("me")
  THEN IF ~Truthy(userId)
       THEN [ok |-> FALSE,
             thrown |-> Thrown("McpError", <<Message("Cannot use \"me\" reference", <<>>)>>)]
       ELSE [ok |-> TRUE, personId |-> userId]
  ELSE [ok |-> TRUE, personId |-> personId]

\* listTimeEntresTool up to its return or its one await.  Every filter of
\* listTimeEntriesSchema is an optional text, which the texts of the model
\* satisfy.
listTimeEntresTool(a, userId) ==
  LET person == ListPerson(a.person_id, userId)
  IN IF ~person.ok THEN Returned(Catch(person.thrown))
     ELSE Awaiting(listTimeEntries([person_id |-> person.personId]))

\* response.data.reduce((sum, entry) => sum + entry.attributes.time, 0)
RECURSIVE totalMinutes(_)
totalMinutes(data) ==
  IF data = <<>> THEN 0
  ELSE totalMinutes(DropEnd(data, 1)) + data[Len(data)].attributes.time

\* listTimeEntresTool from the answer to its request to its end: the text for
\* an empty page, or the count, the total and one line for each entry.
listTimeEntriesResume(r) ==
  LET result == makeRequest(r)
  IN IF ~result.ok THEN Catch(result.thrown)
     ELSE IF Len(result.data.data) = 0
       THEN [kind |-> "listed", count |-> 0, of |-> None, total |-> None,
             entries |-> <<>>]
     ELSE [kind |-> "listed",
           count |-> Len(result.data.data),
           of |-> result.data.total_count,
           total |-> Some(timeDisplay(totalMinutes(result.data.data))),
           entries |-> [i \in 1..Len(result.data.data) |->
                          [time |-> timeDisplay(result.data.data[i].attributes.time),
                           billable |-> BillableDisplay(result.data.data[i].attributes)]]]

\* ---------------------------------------------------------------- actions

NoOutcome == [kind |-> "none"]
Pending == [kind |-> "pending"]

AtRest ==
  /\ calledOn = now
  /\ pc = "idle"
  /\ tool = "none"
  /\ args = [confirm |-> None]
  /\ request = None
  /\ response = None
  /\ outcome = NoOutcome
  /\ callRequests = 0
  /\ posts = 0
  /\ created = 0
  /\ performed = {}
  /\ precededByPreview = FALSE
  /\ shown = None
  /\ twin = None

NoParse ==
  /\ durInput = <<>> /\ durResult = None
  /\ dateToken = <<>> /\ dateResult = None

\* No task and no project upstream, and no add_to_backlog call.
NoComposite ==
  /\ taskSprints = <<>>
  /\ calls = <<>>
  /\ upstream = [boards |-> <<>>, lists |-> <<>>, taskList |-> None]

Init == now = FirstMoment /\ AtRest /\ actor \in Actors /\ NoParse /\ NoComposite

IsCreate(req) == req.method = "POST" /\ req.path = "time_entries"

CountCreates(sent) == Cardinality({i \in 1..Len(sent) : IsCreate(sent[i])})

\* The arguments without the confirmation flag.
Draft(a) == [a EXCEPT !.confirm = None]

Flip(a) ==
  [a EXCEPT !.confirm = IF a.confirm = Some(TRUE) THEN Some(FALSE) ELSE Some(TRUE)]

\* A tool is called and runs to its return or to its await.
Begin(name, a, r) ==
  /\ pc = "idle"
  /\ tool' = name
  /\ args' = a
  /\ request' = IF r.sent = <<>> THEN None ELSE Some(r.sent[Len(r.sent)])
  /\ response' = None
  /\ outcome' = IF IsSome(r.outcome) THEN Val(r.outcome) ELSE Pending
  /\ pc' = IF IsSome(r.outcome) THEN "idle" ELSE "awaiting"
  /\ callRequests' = Len(r.sent)
  /\ posts' = posts + CountCreates(r.sent)
  /\ calledOn' = now
  /\ UNCHANGED <<now, actor, created, performed, parserVars, compositeVars>>

RECURSIVE DayAfter(_, _)
DayAfter(d, k) == IF k = 0 THEN d ELSE DayAfter(NextDay(d), k - 1)

\* The days the clock of the model shows.
Days == {DayAfter(FirstDay, k) : k \in 0..MaxDays}

\* The moments the clock of the tool calls shows.
Moments == {[FirstMoment EXCEPT !.day = d] : d \in Days}

\* createTimeEntryTool, evaluated once for each call the model makes: the
\* handler reads its arguments, the configured user id and the clock, and
\* nothing else.
CallTable ==
  [a \in CreateArgs, u \in Actors, t \in Moments |-> createTimeEntryTool(a, u, t)]

\* case 'create_time_entry': the handler is run on the arguments of this call.
Dispatch(a) == CallTable[a, actor, now]

CallCreateTimeEntry(a) ==
  /\ posts < MaxPosts
  /\ Begin("create_time_entry", a, Dispatch(a))
  /\ precededByPreview' = /\ tool = "create_time_entry"
                          /\ outcome.kind = "preview"
                          /\ Draft(args) = Draft(a)
  /\ shown' = IF precededByPreview' THEN Some(outcome) ELSE None
  /\ twin' = Some(Dispatch(Flip(a)))

CallListTimeEntries(a) ==
  /\ Begin("list_time_entries", a, listTimeEntresTool(a, actor))
  /\ precededByPreview' = FALSE
  /\ shown' = None
  /\ twin' = None

CallListProjectDeals(a) ==
  /\ Begin("list_project_deals", a, listProjectDealsTool(a))
  /\ precededByPreview' = FALSE
  /\ shown' = None
  /\ twin' = None

CallListDealServices(a) ==
  /\ Begin("list_deal_services", a, listDealServicesTool(a))
  /\ precededByPreview' = FALSE
  /\ shown' = None
  /\ twin' = None

\* The tool in flight, from the answer r to its end.
Resume(r) ==
  CASE tool = "create_time_entry" -> createTimeEntryResume(args, actor, r)
    [] tool = "list_time_entries" -> listTimeEntriesResume(r)
    [] OTHER -> listResume(r)

SelectionTools == {"list_project_deals", "list_deal_services"}

HttpErrors ==
  {[kind |-> "http_error", status |-> 422, detail |-> Some("Service is not in the budget")],
   [kind |-> "http_error", status |-> 500, detail |-> None],
   [kind |-> "network_error"]}

Entry(time, billable) == [attributes |-> [time |-> time, billable_time |-> billable]]

\* The pages of time entries the upstream returns, with meta.total_count.
Pages ==
  {[data |-> <<>>, total_count |-> None],
   [data |-> <<Entry(0, None)>>, total_count |-> None],
   [data |-> <<Entry(45, None), Entry(30, Some(30))>>, total_count |-> Some(5)],
   [data |-> <<Entry(60, None), Entry(60, Some(45))>>, total_count |-> None]}

\* The answers the upstream can give to a request.
Responses(req) ==
  HttpErrors \cup
  IF IsCreate(req)
  THEN {[kind |-> "ok", id |-> <<"E">> \o IntToChars(created + 1),
         attributes |-> req.payload.attributes]}
  ELSE IF req.path = "time_entries"
  THEN {[kind |-> "ok", data |-> p.data, total_count |-> p.total_count] : p \in Pages}
  ELSE {[kind |-> "ok", count |-> n] : n \in {0, 2}}

\* A client that sends a refused create request once more.
RespondRetrying(r) ==
  /\ pc = "awaiting"
  /\ r \in Responses(Val(request))
  /\ IF r.kind # "ok" /\ IsCreate(Val(request)) /\ callRequests < 2
     THEN /\ callRequests' = callRequests + 1
          /\ posts' = posts + 1
          /\ UNCHANGED <<now, actor, pc, tool, args, request, response, outcome, created,
                         performed, precededByPreview, shown, twin, calledOn, durInput, durResult,
                         dateToken, dateResult, compositeVars>>
     ELSE /\ response' = Some(r)
          /\ outcome' = Resume(r)
          /\ pc' = "idle"
          /\ created' = IF IsCreate(Val(request)) /\ r.kind = "ok"
                        THEN created + 1 ELSE created
          /\ performed' = IF tool \in SelectionTools /\ r.kind = "ok"
                          THEN performed \cup {tool} ELSE performed
          /\ UNCHANGED <<now, actor, tool, args, request, callRequests, posts,
                         precededByPreview, shown, twin, calledOn, durInput, durResult,
                         dateToken, dateResult, compositeVars>>

\* The upstream answers the request in flight, and the tool runs to its end.
Respond(r) ==
  /\ pc = "awaiting"
  /\ r \in Responses(Val(request))
  /\ response' = Some(r)
  /\ outcome' = Resume(r)
  /\ pc' = "idle"
  /\ created' = IF IsCreate(Val(request)) /\ r.kind = "ok" THEN created + 1 ELSE created
  /\ performed' = IF tool \in SelectionTools /\ r.kind = "ok"
                  THEN performed \cup {tool} ELSE performed
  /\ UNCHANGED <<now, actor, tool, args, request, callRequests, posts,
                 precededByPreview, shown, twin, calledOn, durInput, durResult,
                         dateToken, dateResult, compositeVars>>

RECURSIVE DaysFrom(_, _)
DaysFrom(d, e) == IF d = e THEN 0 ELSE 1 + DaysFrom(NextDay(d), e)

\* Midnight passes.
Tick ==
  /\ DaysFrom(FirstDay, now.day) < MaxDays
  /\ now' = [now EXCEPT !.day = NextDay(now.day)]
  /\ UNCHANGED <<actor, pc, tool, args, request, response, outcome, callRequests,
                 posts, created, performed, precededByPreview, shown, twin, calledOn,
                 durInput, durResult, dateToken, dateResult, compositeVars>>

Next ==
  \/ \E a \in CreateArgs : CallCreateTimeEntry(a)
  \/ \E a \in ListTimeEntriesArgs : CallListTimeEntries(a)
  \/ \E a \in ProjectDealsArgs : CallListProjectDeals(a)
  \/ \E a \in DealServicesArgs : CallListDealServices(a)
  \/ pc = "awaiting" /\ \E r \in Responses(Val(request)) : Respond(r)
  \/ Tick

Spec == Init /\ [][Next]_vars


\* ------------------------------------------------ the duration parser alone

IntAlphabet == {"0", "1", "4"}
FracAlphabet == {"0", "2", "5"}

\* The texts of 1 to n characters of an alphabet.
Texts(alphabet, n) == UNION {[1..k -> alphabet] : k \in 1..n}

IntTexts == {<<>>} \cup Texts(IntAlphabet, MaxIntDigits)
FracTexts ==
  {<<>>, <<".">>} \cup {<<".">> \o f : f \in Texts(FracAlphabet, MaxFracDigits)}
UnitTexts ==
  {<<>>, <<"h">>, <<"m">>, <<"H">>, <<"x">>, <<" ", "h", "o", "u", "r", "s">>}

OtherDurations ==
  {Chars3("a", "b", "c"), <<" ">>, Chars3("-", "2", "h"),
   <<"1", "h", " ", "3", "0", "m">>, <<"9", "0", " ", "m", "i", "n", "u", "t", "e", "s">>}

\* The examples of the documentation.
ExampleDurations ==
  {<<"1", "2", "0", "m">>, <<"2", ".", "5", "m">>, Chars2("2", "h"),
   <<"2", ".", "5", "h">>, Chars3("2", ".", "5"), Chars2("2", "x"), <<"2">>,
   <<"1", "2", "0", " ", "M", "i", "n", "u", "t", "e", "s">>}

\* The durations the tools display, given back as input.
RenderedDurations == {timeDisplay(n) : n \in 0..MaxMinutes}

DurationInputs ==
  {i \o f \o u : i \in IntTexts, f \in FracTexts, u \in UnitTexts}
    \cup OtherDurations \cup ExampleDurations \cup RenderedDurations

InitParse ==
  /\ now = FirstMoment /\ AtRest
  /\ actor = None
  /\ durInput \in DurationInputs
  /\ durResult = None
  /\ dateToken = <<>> /\ dateResult = None
  /\ NoComposite

ParseDuration ==
  /\ durResult = None
  /\ durResult' = Some(parseTimeToMinutes(durInput))
  /\ UNCHANGED <<durInput, dateToken, dateResult, toolVars, compositeVars>>

NextParse == ParseDuration

SpecParse == InitParse /\ [][NextParse]_vars


\* --------------------------------------------------- the date parser alone

Hours == {0, 12, 23}

\* Days before a month and a year boundary.
BoundaryDays ==
  {[year |-> 2024, month |-> 2, day |-> 29], [year |-> 2024, month |-> 12, day |-> 31]}

\* Moments in the zone America/Los_Angeles in the day after its clocks went
\* forward (2024-03-10 10:00 UTC) and in the day after they went back
\* (2024-11-03 09:00 UTC).
ShiftedMoments ==
  {Moment([year |-> 2024, month |-> 3, day |-> 10], 12, 1),
   Moment([year |-> 2024, month |-> 3, day |-> 10], 23, 1),
   Moment([year |-> 2024, month |-> 11, day |-> 3], 12, -1),
   Moment([year |-> 2024, month |-> 11, day |-> 4], 0, -1)}

Clocks ==
  {Moment(DayAfter(d, k), h, 0) : d \in BoundaryDays, k \in 0..MaxDays, h \in Hours}
    \cup ShiftedMoments

TodayTokens == {TodayText, <<"T", "O", "D", "A", "Y">>, <<"T", "o", "d", "a", "y">>}
YesterdayTokens == {YesterdayText, <<"Y", "E", "S", "T", "E", "R", "D", "A", "Y">>, <<"Y", "e", "s", "t", "e", "r", "d", "a", "y">>}
ValidDates == {ExplicitDate, <<"2", "0", "2", "4", "-", "1", "2", "-", "3", "1">>, <<"2", "0", "2", "4", "-", "0", "2", "-", "3", "1">>}
PaddedDate == <<" ">> \o ExplicitDate \o <<" ">>
InvalidDates == {Month13Date, <<"2", "0", "2", "4", "-", "0", "1", "-", "0", "0">>, <<"2", "0", "2", "4", "-", "1", "-", "5">>, <<"n", "o", "t", "-", "a", "-", "d", "a", "t", "e">>, <<"2", "0", "2", "4", "-", "0", "0", "-", "1", "0">>, <<"2", "0", "2", "4", "-", "0", "1", "-", "3", "2">>, <<>>}

DateTokens ==
  TodayTokens \cup YesterdayTokens \cup ValidDates \cup {PaddedDate} \cup InvalidDates

InitDate ==
  /\ now \in Clocks /\ AtRest
  /\ actor = Some("42")
  /\ durInput = <<>> /\ durResult = None
  /\ dateToken \in DateTokens
  /\ dateResult = None
  /\ NoComposite

\* parseDate(dateToken), reading the clock.
ParseDate ==
  /\ dateResult = None
  /\ dateResult' = Some(parseDate(dateToken, now))
  /\ UNCHANGED <<dateToken, durInput, durResult, toolVars, compositeVars>>

\* Arguments complete and valid but for the date, which is the token.
DateArgs(c) == [BaseArgs EXCEPT !.date = Some(dateToken), !.confirm = c]

\* create_time_entry is called once with the token as its date.
CallWithDate(c) ==
  /\ tool = "none"
  /\ Begin("create_time_entry", DateArgs(c), createTimeEntryTool(DateArgs(c), actor, now))
  /\ precededByPreview' = FALSE
  /\ shown' = None
  /\ twin' = None

NextDate ==
  \/ ParseDate
  \/ \E c \in {Some(FALSE), Some(TRUE)} : CallWithDate(c)

SpecDate == InitDate /\ [][NextDate]_vars

\* ------------------------------------------------------ update_task_sprint

\* Most sprint names in one list of the calls of the model.
MaxSprints == 2

\* String.prototype.toUpperCase on the letters the sprint names use.
UpperChar(c) == CASE c = "s" -> "S" [] c = "x" -> "X" [] OTHER -> c

toUpperCase(s) == [i \in 1..Len(s) |-> UpperChar(s[i])]

SprintId(a, b) == <<"2", "3", "1", "2", a, b>>

SPRINT_MAPPING ==
  (<<"S", "0", "1">> :> SprintId("3", "1")) @@ (<<"S", "0", "2">> :> SprintId("3", "2")) @@
  (<<"S", "0", "3">> :> SprintId("3", "3")) @@ (<<"S", "0", "4">> :> SprintId("3", "4")) @@
  (<<"S", "0", "5">> :> SprintId("3", "5")) @@ (<<"S", "0", "6">> :> SprintId("3", "6")) @@
  (<<"S", "0", "7">> :> SprintId("3", "7")) @@ (<<"S", "0", "8">> :> SprintId("3", "8")) @@
  (<<"S", "0", "9">> :> SprintId("3", "9")) @@ (<<"S", "1", "0">> :> SprintId("4", "0"))

\* updateTaskSprintSchema.parse(args): task_id a string, sprints a string or
\* an array of strings.
updateTaskSprintSchema(a) ==
  StringMin("task_id", a.task_id, 0, "")
    \o IF IsSome(a.sprints) THEN <<>>
       ELSE <<[path |-> "sprints", message |-> "Invalid input"]>>

\* ProductiveAPIClient.updateTask with the sprint custom field as its change.
updateTask(taskId, sprintIds) ==
  Request("PATCH", "tasks", [id |-> taskId, sprints |-> sprintIds])

\* The catch block of updateTaskSprint and of addToBacklog: a ZodError becomes
\* InvalidParams, every other error is thrown on as it is.
Rethrow(thrown) ==
  IF thrown.class = "ZodError"
  THEN [kind |-> "error", code |-> "InvalidParams", prefix |-> "Invalid parameters",
        caught |-> thrown.class, messages |-> thrown.messages]
  ELSE [kind |-> "error",
        code |-> IF thrown.class = "McpError" THEN "InvalidParams" ELSE "none",
        prefix |-> "", caught |-> thrown.class, messages |-> thrown.messages]

\* The names up to the first one that is unknown are sent, the rest dropped.
updateTaskSprintSkipsInvalid(a) ==
  LET issues == updateTaskSprintSchema(a)
      sprints == Val(a.sprints)
      sprintArray == IF sprints.kind = "array" THEN sprints.value ELSE <<sprints.text>>
      upper == [i \in 1..Len(sprintArray) |-> toUpperCase(sprintArray[i])]
      known == SelectSeq(upper, LAMBDA n : n \in DOMAIN SPRINT_MAPPING)
  IN IF issues # <<>> THEN Returned(Rethrow(Thrown("ZodError", ZodMessages(issues))))
     ELSE Awaiting(updateTask(Val(a.task_id),
                              [i \in 1..Len(known) |-> SPRINT_MAPPING[known[i]]]))

\* updateTaskSprint up to its return or its one await: an empty array clears
\* the sprints; else every name is mapped in turn, the first unknown one is
\* thrown, and the ids are sent in one update.
updateTaskSprint(a) ==
  LET issues == updateTaskSprintSchema(a)
      sprints == Val(a.sprints)
      sprintArray == IF sprints.kind = "array" THEN sprints.value ELSE <<sprints.text>>
      upper == [i \in 1..Len(sprintArray) |-> toUpperCase(sprintArray[i])]
      unknown == {i \in 1..Len(upper) : upper[i] \notin DOMAIN SPRINT_MAPPING}
      first == CHOOSE i \in unknown : \A j \in unknown : i <= j
  IN IF issues # <<>> THEN Returned(Rethrow(Thrown("ZodError", ZodMessages(issues))))
     ELSE IF sprints.kind = "array" /\ Len(sprints.value) = 0
       THEN Awaiting(updateTask(Val(a.task_id), <<>>))
     ELSE IF unknown # {}
       THEN Returned(Rethrow(Thrown("McpError",
                       <<Message("Invalid sprint number", sprintArray[first])>>)))
     ELSE Awaiting(updateTask(Val(a.task_id),
                              [i \in 1..Len(upper) |-> SPRINT_MAPPING[upper[i]]]))

\* Object.entries(SPRINT_MAPPING).find(([_, value]) => value === id)
SprintNameOf(id) ==
  IF \E name \in DOMAIN SPRINT_MAPPING : SPRINT_MAPPING[name] = id
  THEN CHOOSE name \in DOMAIN SPRINT_MAPPING : SPRINT_MAPPING[name] = id
  ELSE id

\* updateTaskSprint from the answer to its update to its end.
updateTaskSprintResume(a, r) ==
  LET result == makeRequest(r)
      sprints == Val(a.sprints)
      updatedSprints == IF IsSome(result.data.custom_fields)
                        THEN Val(result.data.custom_fields) ELSE <<>>
  IN IF ~result.ok THEN Rethrow(result.thrown)
     ELSE IF sprints.kind = "array" /\ Len(sprints.value) = 0
       THEN [kind |-> "cleared", task |-> Val(a.task_id)]
     ELSE [kind |-> "updated", task |-> Val(a.task_id),
           sprints |-> [i \in 1..Len(updatedSprints) |-> SprintNameOf(updatedSprints[i])]]

\* The sprint names the calls of the model use.
SprintNames ==
  {<<"S", "0", "3">>, <<"s", "0", "4">>, <<"S", "1", "0">>, <<"S", "1", "1">>,
   <<"S", "0", "0">>, <<"S", "3">>}

SprintLists == UNION {[1..k -> SprintNames] : k \in 0..MaxSprints}

SprintArgs ==
  {[task_id |-> Some("T7"), sprints |-> Some([kind |-> "array", value |-> l])] :
     l \in SprintLists}
    \cup {[task_id |-> Some("T7"), sprints |-> Some([kind |-> "string", text |-> n])] :
            n \in SprintNames}
    \cup {[task_id |-> Some("T7"), sprints |-> None],
          [task_id |-> None, sprints |-> Some([kind |-> "array", value |-> <<>>])]}

InitSprint ==
  /\ now = FirstMoment /\ AtRest
  /\ actor = None
  /\ NoParse
  /\ taskSprints \in {<<>>, <<SprintId("3", "9")>>}
  /\ calls = <<>>
  /\ upstream = [boards |-> <<>>, lists |-> <<>>, taskList |-> None]

\* update_task_sprint is called once.
CallUpdateTaskSprint(a) ==
  /\ tool = "none"
  /\ Begin("update_task_sprint", a, updateTaskSprint(a))
  /\ precededByPreview' = FALSE
  /\ shown' = None
  /\ twin' = None

\* The answers of the upstream to the update of a task: a failure, or the
\* task as updated, with or without its custom fields.
UpdateTaskResponses(req) ==
  HttpErrors \cup
  {[kind |-> "ok", custom_fields |-> f] : f \in {None, Some(req.payload.sprints)}}

\* The upstream answers the update; when it accepted it the task holds the
\* sprint ids sent.
RespondUpdateTask(r) ==
  /\ pc = "awaiting"
  /\ r \in UpdateTaskResponses(Val(request))
  /\ response' = Some(r)
  /\ outcome' = updateTaskSprintResume(args, r)
  /\ pc' = "idle"
  /\ taskSprints' = IF r.kind = "ok" THEN Val(request).payload.sprints ELSE taskSprints
  /\ UNCHANGED <<now, actor, tool, args, request, callRequests, posts, created,
                 performed, precededByPreview, shown, twin, calledOn, parserVars,
                 calls, upstream>>

NextSprint ==
  \/ \E a \in SprintArgs : CallUpdateTaskSprint(a)
  \/ pc = "awaiting" /\ \E r \in UpdateTaskResponses(Val(request)) : RespondUpdateTask(r)

SpecSprint == InitSprint /\ [][NextSprint]_vars


\* ---------------------------------------------------------- add_to_backlog

\* Most add_to_backlog calls in one behaviour; they may overlap.
MaxCalls == 2

BacklogName == <<"B", "a", "c", "k", "l", "o", "g">>
backlogText == <<"b", "a", "c", "k", "l", "o", "g">>

\* addToBacklogSchema.parse(args): task_id and project_id are strings.
addToBacklogSchema(a) ==
  StringMin("task_id", a.task_id, 0, "") \o StringMin("project_id", a.project_id, 0, "")

\* ProductiveAPIClient.listBoards: one GET of boards; the project filter is
\* added only for a truthy project_id.
listBoards(project_id) ==
  Request("GET", "boards",
          [project_id |-> IF Len(project_id) > 0 THEN Some(project_id) ELSE None])

\* ProductiveAPIClient.listTaskLists: one GET of the task lists of a board.
listTaskLists(board_id) == Request("GET", "task_lists", [board_id |-> board_id])

\* ProductiveAPIClient.createTaskList with the Backlog list as its body.
createTaskList(project_id, boardId) ==
  Request("POST", "task_lists",
          [name |-> BacklogName, project_id |-> project_id, board |-> boardId])

\* ProductiveAPIClient.updateTask with the task_list relationship as its change.
updateTaskList(task_id, backlogListId) ==
  Request("PATCH", "tasks", [id |-> task_id, task_list |-> backlogListId])

\* An add_to_backlog call that has not begun.  read holds the names of the
\* task lists it was shown, sent the requests it has made.
NotCalled ==
  [pc |-> "idle", args |-> [task_id |-> None, project_id |-> None], boards |-> <<>>,
   next |-> 0, backlogListId |-> None, inflight |-> <<>>, sent |-> <<>>, read |-> <<>>,
   outcome |-> NoOutcome]

\* The call makes a request and awaits its answer.
Sending(call, step, req) ==
  [call EXCEPT !.pc = step, !.inflight = Append(@, req), !.sent = Append(@, req)]

\* The call returns or throws.
Ended(call, result) == [call EXCEPT !.pc = "done", !.outcome = result]

\* addToBacklog up to its first await.
addToBacklog(call, a) ==
  LET issues == addToBacklogSchema(a)
  IN IF issues # <<>>
     THEN Ended([call EXCEPT !.args = a], Rethrow(Thrown("ZodError", ZodMessages(issues))))
     ELSE Sending([call EXCEPT !.args = a], "boards", listBoards(Val(a.project_id)))

\* After the boards: no board is an error, else the lists of the first board
\* are asked for.
afterBoards(call, r) ==
  LET result == makeRequest(r)
  IN IF ~result.ok THEN Ended(call, Rethrow(result.thrown))
     ELSE IF Len(result.data.data) = 0
       THEN Ended(call, Rethrow(Thrown("McpError", <<Message("No boards found in project",
                                                             Val(call.args.project_id))>>)))
     ELSE Sending([call EXCEPT !.boards = result.data.data, !.next = 1],
                  "lists", listTaskLists(result.data.data[1]))

\* if (!backlogListId): the Backlog list is created in the first board.
createBacklog(call) ==
  Sending(call, "create", createTaskList(Val(call.args.project_id), call.boards[1]))

\* The loop over the boards goes on, or ends without a list found.
nextBoard(call) ==
  IF call.next < Len(call.boards)
  THEN Sending([call EXCEPT !.next = @ + 1], "lists", listTaskLists(call.boards[call.next + 1]))
  ELSE createBacklog(call)

\* After the task lists of a board: the first list whose name is "backlog" in
\* lower case ends the loop and the task is moved to it.
afterTaskLists(call, r) ==
  LET result == makeRequest(r)
      data == result.data.data
      hits == {i \in 1..Len(data) : toLowerCase(data[i].name) = backlogText}
      backlogList == data[CHOOSE i \in hits : \A j \in hits : i <= j]
      seen == [call EXCEPT !.read = @ \o [i \in 1..Len(data) |-> data[i].name]]
  IN IF ~result.ok THEN Ended(call, Rethrow(result.thrown))
     ELSE IF hits # {}
       THEN Sending([seen EXCEPT !.backlogListId = Some(backlogList.id)], "update",
                    updateTaskList(Val(call.args.task_id), backlogList.id))
     ELSE nextBoard(seen)

\* The list is read once more after it was created, before the task is moved.
afterCreateReadsAgain(call, r) ==
  LET result == makeRequest(r)
  IN IF ~result.ok THEN Ended(call, Rethrow(result.thrown))
     ELSE Sending([call EXCEPT !.next = Len(call.boards)], "lists",
                  listTaskLists(call.boards[1]))

\* After the Backlog list was created the task is moved to it.
afterCreate(call, r) ==
  LET result == makeRequest(r)
  IN IF ~result.ok THEN Ended(call, Rethrow(result.thrown))
     ELSE Sending([call EXCEPT !.backlogListId = Some(result.data.id)], "update",
                  updateTaskList(Val(call.args.task_id), result.data.id))

\* After the task was moved the call returns.
afterUpdate(call, r) ==
  LET result == makeRequest(r)
  IN IF ~result.ok THEN Ended(call, Rethrow(result.thrown))
     ELSE Ended(call, [kind |-> "moved", task |-> Val(call.args.task_id),
                       list |-> Val(call.backlogListId)])

\* A task list of the upstream; by is the call that created it, 0 for a list
\* that was there before.
TaskList(id, board, name, by) == [id |-> id, board |-> board, name |-> name, by |-> by]

\* The projects the calls meet: no board; one board without lists; one board
\* with another list; two boards, the second with a list named BACKLOG; one
\* board with the Backlog list.
Worlds ==
  {[boards |-> <<>>, lists |-> <<>>, taskList |-> None],
   [boards |-> <<"B1">>, lists |-> <<>>, taskList |-> None],
   [boards |-> <<"B1", "B2">>,
    lists |-> <<TaskList(1, "B1", <<"T", "o", "d", "o">>, 0)>>, taskList |-> Some(1)],
   [boards |-> <<"B1", "B2">>,
    lists |-> <<TaskList(1, "B2", <<"B", "A", "C", "K", "L", "O", "G">>, 0)>>,
    taskList |-> None],
   [boards |-> <<"B1">>, lists |-> <<TaskList(1, "B1", BacklogName, 0)>>,
    taskList |-> None]}

BacklogArgs ==
  {[task_id |-> Some("T7"), project_id |-> Some("P1")],
   [task_id |-> Some("T7"), project_id |-> None]}

Refusal == [kind |-> "http_error", status |-> 404, detail |-> None]

InitBacklog ==
  /\ now = FirstMoment /\ AtRest
  /\ actor = None
  /\ NoParse
  /\ taskSprints = <<>>
  /\ calls = [c \in 1..MaxCalls |-> NotCalled]
  /\ upstream \in Worlds

\* case 'add_to_backlog': a call begins, whatever the other calls are doing.
CallAddToBacklog(c, a) ==
  /\ calls[c].pc = "idle"
  /\ calls' = [calls EXCEPT ![c] = addToBacklog(@, a)]
  /\ UNCHANGED <<toolVars, parserVars, taskSprints, upstream>>

\* The answer reaches the call: the request is no longer in flight.
Answered(call) == [call EXCEPT !.inflight = Tail(@)]

\* The upstream answers the boards request of call c.
AnswerBoards(c, ok) ==
  /\ calls[c].pc = "boards"
  /\ calls' = [calls EXCEPT ![c] =
                 afterBoards(Answered(@), IF ok THEN [kind |-> "ok", data |-> upstream.boards]
                                          ELSE Refusal)]
  /\ UNCHANGED <<toolVars, parserVars, taskSprints, upstream>>

\* The task lists the upstream holds for a board.
ListsOf(board) == SelectSeq(upstream.lists, LAMBDA l : l.board = board)

\* The upstream answers the task lists request of call c.
AnswerTaskLists(c, ok) ==
  /\ calls[c].pc = "lists"
  /\ calls' = [calls EXCEPT ![c] =
                 afterTaskLists(Answered(@),
                                IF ok THEN [kind |-> "ok",
                                            data |-> ListsOf(Head(@.inflight).payload.board_id)]
                                ELSE Refusal)]
  /\ UNCHANGED <<toolVars, parserVars, taskSprints, upstream>>

\* The upstream creates the task list call c asked for, or refuses.
AnswerCreate(c, ok) ==
  /\ calls[c].pc = "create"
  /\ LET req == Head(calls[c].inflight)
         id == Len(upstream.lists) + 1
     IN /\ upstream' = IF ok
                       THEN [upstream EXCEPT !.lists =
                               Append(@, TaskList(id, req.payload.board, req.payload.name, c))]
                       ELSE upstream
        /\ calls' = [calls EXCEPT ![c] =
                       afterCreate(Answered(@), IF ok THEN [kind |-> "ok", id |-> id]
                                                ELSE Refusal)]
  /\ UNCHANGED <<toolVars, parserVars, taskSprints>>

\* The upstream moves the task as call c asked, or refuses.
AnswerUpdate(c, ok) ==
  /\ calls[c].pc = "update"
  /\ LET req == Head(calls[c].inflight)
     IN /\ upstream' = IF ok THEN [upstream EXCEPT !.taskList = Some(req.payload.task_list)]
                       ELSE upstream
        /\ calls' = [calls EXCEPT ![c] =
                       afterUpdate(Answered(@), IF ok THEN [kind |-> "ok"] ELSE Refusal)]
  /\ UNCHANGED <<toolVars, parserVars, taskSprints>>

NextBacklog ==
  \E c \in 1..MaxCalls :
    \/ \E a \in BacklogArgs : CallAddToBacklog(c, a)
    \/ \E ok \in BOOLEAN : AnswerBoards(c, ok)
    \/ \E ok \in BOOLEAN : AnswerTaskLists(c, ok)
    \/ \E ok \in BOOLEAN : AnswerCreate(c, ok)
    \/ \E ok \in BOOLEAN : AnswerUpdate(c, ok)

SpecBacklog == InitBacklog /\ [][NextBacklog]_vars


\* ------------------------------------------------------------- properties

IsCreateCall == tool = "create_time_entry"

SentCreate == IsSome(request) /\ IsCreate(Val(request))

\* The error is one the tool raised itself while checking its input (a
\* ZodError or an McpError), not an Error thrown by the API client.
IsValidationError(o) == o.kind = "error" /\ o.caught # "Error"

\* The arguments pass every check of create_time_entry: the required texts
\* are there and long enough, "me" can be resolved, and the date, the time and
\* the billable time (when given) are recognised.
WellFormed(a, userId) ==
  /\ \A f \in {"date", "time", "person_id", "service_id", "note"} :
       IsSome(a[f]) /\ Len(Val(a[f])) >= 1
  /\ Len(Val(a.note)) >= 10
  /\ Val(a.person_id) = "me" => Truthy(userId)
  /\ parseDate(Val(a.date), FirstMoment).ok
  /\ ParsedDuration(Val(a.time)).ok
  /\ Truthy(a.billable_time) => ParsedDuration(Val(a.billable_time)).ok

\* The normalised draft of well-formed arguments on a given day.
ExpectedDraft(a, userId, day) ==
  [date |-> parseDate(Val(a.date), day).date,
   minutes |-> ParsedDuration(Val(a.time)).minutes,
   billable |-> IF Truthy(a.billable_time)
                THEN Some(ParsedDuration(Val(a.billable_time)).minutes) ELSE None,
   person |-> IF Val(a.person_id) = "me" THEN Val(userId) ELSE Val(a.person_id),
   service |-> Val(a.service_id)]

SentDraft(req) ==
  [date |-> req.payload.attributes.date,
   minutes |-> req.payload.attributes.time,
   billable |-> req.payload.attributes.billable_time,
   person |-> req.payload.relationships.person,
   service |-> req.payload.relationships.service]

\* C1: while every create_time_entry call is unconfirmed (confirm absent or
\* false), no create request is ever sent: the count of create requests grows
\* only in a step that begins a call with confirm = true, and an unconfirmed
\* call has sent nothing, however often it is repeated.
C1_UnconfirmedNeverCreates ==
  /\ [](IsCreateCall /\ ~ConfirmFlag(args) =>
          callRequests = 0 /\ request = None /\ pc = "idle")
  /\ [][posts' # posts => tool' = "create_time_entry" /\ ConfirmFlag(args')]_vars

C1_Witness ==
  /\ IsCreateCall /\ ~ConfirmFlag(args)
  /\ outcome.kind = "preview"
  /\ precededByPreview
  /\ posts = 0

\* C2: a confirmed call with well-formed arguments sends exactly one create
\* request, whatever the upstream answers; after a rejection or a failure
\* nothing is sent again and the call ends in an error.
C2_ConfirmedCreatesOnce ==
  IsCreateCall /\ ConfirmFlag(args) /\ WellFormed(args, actor) =>
    /\ callRequests = 1
    /\ SentCreate
    /\ pc = "idle" =>
         /\ IsSome(response)
         /\ Val(response).kind = "ok" => outcome.kind = "created"
         /\ Val(response).kind # "ok" => outcome.kind = "error"

C2_Witness ==
  /\ IsCreateCall /\ ConfirmFlag(args) /\ WellFormed(args, actor)
  /\ pc = "idle"
  /\ Val(response).kind = "http_error"
  /\ outcome.kind = "error"
  /\ callRequests = 1

\* C3: a create_time_entry call that ends in a validation error (schema,
\* unresolved "me", malformed date, time or billable time) has sent no
\* request, with confirm false and with confirm true.
C3_ValidationBeforeNetwork ==
  IsCreateCall /\ IsValidationError(outcome) =>
    callRequests = 0 /\ request = None /\ response = None

C3_Witness ==
  /\ IsCreateCall /\ ConfirmFlag(args)
  /\ IsValidationError(outcome)
  /\ outcome.messages[1].text = "Invalid time format"
  /\ callRequests = 0

C5_GateKeepsNoMemory ==
  /\ [](IsCreateCall =>
          IF ~WellFormed(args, actor)
            THEN outcome.kind = "error" /\ request = None
          ELSE IF ~ConfirmFlag(args)
            THEN /\ request = None
                 /\ outcome.kind = "preview"
                 /\ outcome.date = ExpectedDraft(args, actor, calledOn).date
                 /\ outcome.time = timeDisplay(ExpectedDraft(args, actor, calledOn).minutes)
                 /\ outcome.person = ExpectedDraft(args, actor, calledOn).person
                 /\ outcome.service = ExpectedDraft(args, actor, calledOn).service
          ELSE /\ SentCreate
               /\ SentDraft(Val(request)) = ExpectedDraft(args, actor, calledOn)
               /\ pc = "idle" =>
                    IF Val(response).kind = "ok"
                    THEN outcome.kind = "created" /\ outcome.id = Val(response).id
                    ELSE outcome.kind = "error")
  /\ [][(pc = "idle" /\ now' = now /\ tool' = "create_time_entry"
           /\ outcome'.kind = "preview")
          => UNCHANGED <<posts, created, actor>>]_vars

C5_Witness ==
  /\ IsCreateCall /\ ConfirmFlag(args)
  /\ ~precededByPreview
  /\ pc = "idle"
  /\ outcome.kind = "created"
  /\ calledOn # now

\* C6: the same arguments end in a validation error with confirm = false
\* if and only if they do with confirm = true, and then in the same error.
C6_SameValidationBothWays ==
  IsCreateCall /\ pc = "idle" /\ response = None =>
    LET other == Val(twin)
    IN /\ IsValidationError(outcome) <=>
            (IsSome(other.outcome) /\ IsValidationError(Val(other.outcome)))
       /\ IsValidationError(outcome) => Val(other.outcome) = outcome

C6_Witness ==
  /\ IsCreateCall /\ ~ConfirmFlag(args)
  /\ IsValidationError(outcome)
  /\ IsValidationError(Val(Val(twin).outcome))
  /\ outcome.messages[1].text = "Invalid billable time format"

\* C7: a call whose note is absent or shorter than 10 characters ends in an
\* error with nothing sent, confirmed or not: no preview, no create request.
C7_ShortNoteFails ==
  IsCreateCall /\ (~IsSome(args.note) \/ Len(Val(args.note)) < 10) =>
    /\ pc = "idle"
    /\ outcome.kind = "error"
    /\ callRequests = 0 /\ request = None

C7_Witness ==
  /\ IsCreateCall /\ ConfirmFlag(args)
  /\ args.note = Some(ShortNote)
  /\ outcome.kind = "error"
  /\ posts = 0

\* C8: a call whose service_id is absent or empty ends in an error with
\* nothing sent, confirmed or not; every create request names a service.
C8_MissingServiceFails ==
  /\ IsCreateCall /\ ~Truthy(args.service_id) =>
       /\ pc = "idle"
       /\ outcome.kind = "error"
       /\ callRequests = 0 /\ request = None
  /\ SentCreate => Len(Val(request).payload.relationships.service) > 0

C8_Witness ==
  /\ IsCreateCall /\ ConfirmFlag(args)
  /\ args.service_id = Some("")
  /\ outcome.kind = "error"
  /\ callRequests = 0

IsHourForm(s) ==
  /\ Len(s) >= 2 /\ s[Len(s)] = "h"
  /\ LET number == DropEnd(s, 1)
     IN /\ IsNumber(number)
        /\ IntDigits(number) # <<>>

\* number * 60 rounded to the nearest whole number, halves upwards, in exact
\* arithmetic: floor(N * 60 / D + 1/2) for the number N / D.
ExactMinutes(number) ==
  LET N == parseInt(IntDigits(number) \o FracDigits(number))
      D == Pow10(Len(FracDigits(number)))
  IN (N * 120 + D) \div (2 * D)

\* C10: for every text <number>h the parser returns number * 60 rounded to
\* the nearest whole minute, halves upwards.
C10_HoursRoundHalfUp ==
  IsSome(durResult) /\ IsHourForm(durInput) =>
    /\ Val(durResult).ok
    /\ Val(durResult).minutes = ExactMinutes(DropEnd(durInput, 1))

\* C15: "today" in any letter case gives the current date, "yesterday" the
\* calendar day before it, also across a month or a year boundary, and a valid
\* YYYY-MM-DD text gives itself, whatever the clock shows.
C15_DateNormaliser ==
  IsSome(dateResult) =>
    /\ dateToken \in TodayTokens =>
         Val(dateResult) = [ok |-> TRUE, date |-> ISODate(now.day)]
    /\ dateToken \in YesterdayTokens =>
         Val(dateResult) = [ok |-> TRUE, date |-> ISODate(PrevDay(now.day))]
    /\ dateToken \in ValidDates =>
         Val(dateResult) = [ok |-> TRUE, date |-> dateToken]

\* C17: the result of the date parser depends on nothing but its explicit
\* input: whatever the system clock shows, the same token gives the same
\* result.
C17_DateIgnoresClock ==
  IsSome(dateResult) =>
    \A clock \in Clocks : parseDate(dateToken, clock) = Val(dateResult)

\* The minute form <integer>m, and the same with a decimal fraction.
IsMinuteForm(s) == Len(s) >= 2 /\ s[Len(s)] = "m" /\ IsInteger(DropEnd(s, 1))

IsFractionalMinuteForm(s) ==
  /\ Len(s) >= 2 /\ s[Len(s)] = "m"
  /\ IsNumber(DropEnd(s, 1)) /\ ~IsInteger(DropEnd(s, 1))

RECURSIVE StripZeros(_)
StripZeros(digits) ==
  IF Len(digits) > 1 /\ Head(digits) = "0" THEN StripZeros(Tail(digits)) ELSE digits

\* C11: for every text <integer>m the parser returns that integer (written
\* out, the result is the digits given, leading zeros apart); a minute form
\* with a decimal fraction fails as an invalid time format.
C11_MinutesUnchanged ==
  IsSome(durResult) =>
    /\ IsMinuteForm(durInput) =>
         /\ Val(durResult).ok
         /\ IntToChars(Val(durResult).minutes) = StripZeros(DropEnd(durInput, 1))
    /\ IsFractionalMinuteForm(durInput) =>
         /\ ~Val(durResult).ok
         /\ Val(durResult).message = "Invalid time format"
         /\ Val(durResult).value = durInput

C11_Witness ==
  /\ durInput = <<"1", "2", "0", "m">>
  /\ durResult = Some([ok |-> TRUE, minutes |-> 120])

\* C12: a bare number is read as hours: the text x alone gives what x
\* followed by h gives, and for a whole number k the texts k, k followed by h
\* and 60 * k followed by m give the same minutes.
C12_BareNumberIsHours ==
  IsSome(durResult) =>
    /\ IsNumber(durInput) =>
         /\ Val(durResult).ok
         /\ Val(durResult) = parseTimeToMinutes(durInput \o <<"h">>)
    /\ IsInteger(durInput) =>
         Val(durResult) =
           parseTimeToMinutes(IntToChars(60 * parseInt(durInput)) \o <<"m">>)

C12_Witness ==
  /\ durInput = Chars3("2", ".", "5")
  /\ durResult = Some([ok |-> TRUE, minutes |-> 150])

\* The shape YYYY-MM-DD with a month from 1 to 12 and a day from 1 to 31.
WellShapedDate(s) ==
  /\ Len(s) = 10
  /\ s[5] = "-" /\ s[8] = "-"
  /\ \A i \in {1, 2, 3, 4, 6, 7, 9, 10} : s[i] \in Digit
  /\ parseInt(SubSeq(s, 6, 7)) \in 1..12
  /\ parseInt(SubSeq(s, 9, 10)) \in 1..31

IsRelativeDate(s) == trim(toLowerCase(s)) \in {TodayText, YesterdayText}

IsDateError(o) ==
  /\ o.kind = "error"
  /\ o.messages[1].text \in {"Invalid date", "Invalid date format", "Date is required"}

\* C16 as claimed: a date other than today and yesterday is accepted exactly
\* when the text itself has the shape YYYY-MM-DD with month 1..12 and day
\* 1..31, and is then forwarded unchanged; every other text fails and nothing
\* is sent.
C16_DateAcceptedIffShape ==
  ~IsRelativeDate(dateToken) =>
    /\ IsSome(dateResult) =>
         /\ Val(dateResult).ok <=> WellShapedDate(dateToken)
         /\ Val(dateResult).ok => Val(dateResult).date = dateToken
    /\ IsCreateCall =>
         IF WellShapedDate(dateToken)
         THEN ConfirmFlag(args) =>
                SentCreate /\ Val(request).payload.attributes.date = dateToken
         ELSE IsDateError(outcome) /\ request = None /\ callRequests = 0

\* C16 as amended: the text is judged, and forwarded, with the white space
\* around it removed.
C16_TrimmedDateAcceptedIffShape ==
  ~IsRelativeDate(dateToken) =>
    /\ IsSome(dateResult) =>
         /\ Val(dateResult).ok <=> WellShapedDate(trim(dateToken))
         /\ Val(dateResult).ok => Val(dateResult).date = trim(dateToken)
         /\ ~Val(dateResult).ok =>
              /\ Val(dateResult).message \in {"Invalid date", "Invalid date format"}
              /\ Val(dateResult).value = dateToken
    /\ IsCreateCall =>
         IF WellShapedDate(trim(dateToken))
         THEN IF ConfirmFlag(args)
              THEN SentCreate /\ Val(request).payload.attributes.date = trim(dateToken)
              ELSE outcome.kind = "preview" /\ outcome.date = trim(dateToken)
         ELSE IsDateError(outcome) /\ request = None /\ callRequests = 0

C16_Witness ==
  /\ dateToken = <<"2", "0", "2", "4", "-", "0", "2", "-", "3", "1">>
  /\ dateResult = Some([ok |-> TRUE, date |-> dateToken])
  /\ IsCreateCall /\ ConfirmFlag(args)
  /\ SentCreate
  /\ Val(request).payload.attributes.date = dateToken

\* One of the three forms the duration parser recognises (hours, whole
\* minutes, bare number), white space around it and letter case apart.
IsRecognisedDuration(t) ==
  LET input == trim(toLowerCase(t))
  IN hourMatch(input) # {} \/ minuteMatch(input) # {} \/ decimalMatch(input) # {}

GivenMalformedDuration(a) ==
  \E f \in {"time", "billable_time"} : IsSome(a[f]) /\ ~IsRecognisedDuration(Val(a[f]))

\* C13: a create_time_entry call whose time or billable_time is none of the
\* three recognised forms (the empty text included) ends in an error and sends
\* nothing upstream.
C13_MalformedDurationSendsNothing ==
  IsCreateCall /\ GivenMalformedDuration(args) =>
    /\ pc = "idle"
    /\ outcome.kind = "error"
    /\ request = None /\ callRequests = 0

ZeroDurations == {<<"0">>, Chars2("0", "h"), Chars2("0", "m")}

\* C14: the minutes a preview shows and a create request carries are whole
\* numbers not below zero; a zero duration is accepted: it previews as 0m and,
\* confirmed, is sent with time 0.
C14_MinutesWholeZeroAllowed ==
  IsCreateCall =>
    /\ SentCreate =>
         /\ Val(request).payload.attributes.time \in Nat
         /\ \A b \in {Val(request).payload.attributes.billable_time} :
              IsSome(b) => Val(b) \in Nat
    /\ outcome.kind = "preview" =>
         /\ ParsedDuration(Val(args.time)).minutes \in Nat
         /\ outcome.time = timeDisplay(ParsedDuration(Val(args.time)).minutes)
         /\ IsSome(outcome.billable) =>
              /\ ParsedDuration(Val(args.billable_time)).minutes \in Nat
              /\ Val(outcome.billable) =
                   timeDisplay(ParsedDuration(Val(args.billable_time)).minutes)
    /\ WellFormed(args, actor) /\ Val(args.time) \in ZeroDurations =>
         IF ConfirmFlag(args)
         THEN SentCreate /\ Val(request).payload.attributes.time = 0
         ELSE outcome.kind = "preview" /\ outcome.time = Chars2("0", "m")

C14_Witness ==
  /\ IsCreateCall /\ ConfirmFlag(args)
  /\ args.time = Some(Chars2("0", "h"))
  /\ SentCreate
  /\ Val(request).payload.attributes.time = 0
  /\ outcome.kind = "created"

\* C18: one rule for the person in create_time_entry and list_time_entries.
\* "me" becomes the configured user id, or the call fails with nothing sent
\* when none is configured; every other id is used as given, whatever the
\* configured user id is.
C18_OneActorRule ==
  /\ IsCreateCall /\ args.person_id = Some("me") /\ ~Truthy(actor) =>
       outcome.kind = "error" /\ request = None /\ callRequests = 0
  /\ IsCreateCall /\ WellFormed(args, actor) =>
       LET expected == IF args.person_id = Some("me") THEN Val(actor)
                       ELSE Val(args.person_id)
       IN IF ConfirmFlag(args)
          THEN SentCreate /\ Val(request).payload.relationships.person = expected
          ELSE outcome.kind = "preview" /\ outcome.person = expected
  /\ tool = "list_time_entries" =>
       IF args.person_id = Some("me")
       THEN IF Truthy(actor)
            THEN IsSome(request) /\ Val(request).payload.person_id = actor
            ELSE outcome.kind = "error" /\ request = None /\ callRequests = 0
       ELSE /\ IsSome(request)
            /\ Val(request).payload.person_id =
                 IF Truthy(args.person_id) THEN args.person_id ELSE None

C18_Witness ==
  /\ tool = "list_time_entries"
  /\ args.person_id = Some("me") /\ actor = Some("42")
  /\ Val(request).payload.person_id = Some("42")
  /\ outcome.kind = "listed"

\* The arguments pass every check and the billable time, when given, is a
\* duration.
ValidArgs(a, userId) ==
  WellFormed(a, userId) /\ (IsSome(a.billable_time) => Truthy(a.billable_time))

\* C19: for valid arguments with confirm = true the one create request
\* carries the normalised date, the parsed minutes, the resolved person, the
\* service and the note given, and the billable minutes exactly when a
\* billable time was given; on success the confirmation shows the id the
\* server assigned.  For today, 2h, me, S1 with the user id 42 the request has
\* time 120, person 42, service S1 and the day's date.
C19_RequestCarriesDraft ==
  IsCreateCall /\ ConfirmFlag(args) /\ ValidArgs(args, actor) =>
    /\ callRequests = 1 /\ SentCreate
    /\ SentDraft(Val(request)) = ExpectedDraft(args, actor, calledOn)
    /\ Val(request).payload.attributes.note = args.note
    /\ IsSome(Val(request).payload.attributes.billable_time) <=> IsSome(args.billable_time)
    /\ (pc = "idle" /\ Val(response).kind = "ok") =>
         outcome.kind = "created" /\ outcome.id = Val(response).id
    /\ (Draft(args) = BaseArgs /\ actor = Some("42")) =>
         /\ Val(request).payload.attributes.time = 120
         /\ Val(request).payload.relationships.person = "42"
         /\ Val(request).payload.relationships.service = "S1"
         /\ Val(request).payload.attributes.date = ISODate(calledOn.day)

C19_Witness ==
  /\ IsCreateCall /\ ConfirmFlag(args)
  /\ Draft(args) = BaseArgs /\ actor = Some("42")
  /\ Val(request).payload.attributes.time = 120
  /\ outcome.kind = "created"
  /\ outcome.id = Val(response).id

\* C20: in create_time_entry and list_time_entries the only error after a
\* request was sent is the failure the API client reports for that request,
\* and when the upstream's answer carries a detail the error is that detail,
\* with no text put in its place.
C20_UpstreamErrorPassedThrough ==
  (tool \in {"create_time_entry", "list_time_entries"} /\ callRequests > 0 /\ pc = "idle") =>
    /\ IsSome(response)
    /\ outcome.kind = "error" <=> Val(response).kind # "ok"
    /\ outcome.kind = "error" => outcome.caught = "Error"
    /\ (Val(response).kind = "http_error" /\ IsSome(Val(response).detail)) =>
         /\ outcome.messages = <<Message(Val(Val(response).detail), <<>>)>>
         /\ outcome.prefix = ""

C20_Witness ==
  /\ tool = "list_time_entries"
  /\ pc = "idle" /\ callRequests = 1
  /\ Val(response).kind = "http_error" /\ IsSome(Val(response).detail)
  /\ outcome.kind = "error"
  /\ outcome.messages[1].text = "Service is not in the budget"

\* C21: in create_time_entry and list_time_entries an error is reported with
\* the code InvalidParams exactly when it is a validation failure (schema,
\* "me" without a configured user id, malformed date, time or billable time),
\* and with InternalError only for a failure of the API client.
C21_ErrorKindsDistinct ==
  (tool \in {"create_time_entry", "list_time_entries"} /\ outcome.kind = "error") =>
    /\ IsValidationError(outcome) => outcome.code = "InvalidParams"
    /\ outcome.code = "InternalError" => outcome.caught = "Error"

RequiredFields == {"date", "time", "person_id", "service_id", "note"}

\* The argument that the text of an error message names, if it names one.
FieldNamed(text) ==
  CASE text = "Date is required" -> Some("date")
    [] text = "Time is required" -> Some("time")
    [] text = "Person ID is required" -> Some("person_id")
    [] text = "Service ID is required" -> Some("service_id")
    [] text = "Work description must be at least 10 characters" -> Some("note")
    [] text = "Invalid date" -> Some("date")
    [] text = "Invalid date format" -> Some("date")
    [] text = "Invalid time format" -> Some("time")
    [] text = "Invalid billable time format" -> Some("billable_time")
    [] text = "Cannot use \"me\" reference" -> Some("person_id")
    [] OTHER -> None

\* C22: an error of create_time_entry names the offending field or value.
\* When a required field is absent a message of the error names that field;
\* when the date or the time is malformed a message carries the value given.
C22_ErrorNamesFieldOrValue ==
  (IsCreateCall /\ outcome.kind = "error" /\ callRequests = 0) =>
    /\ \A f \in RequiredFields :
         ~IsSome(args[f]) =>
           \E i \in 1..Len(outcome.messages) : FieldNamed(outcome.messages[i].text) = Some(f)
    /\ \A i \in 1..Len(outcome.messages) :
         outcome.messages[i].text \in {"Invalid date", "Invalid date format"} =>
           outcome.messages[i].value = Val(args.date)
    /\ \A i \in 1..Len(outcome.messages) :
         outcome.messages[i].text = "Invalid time format" =>
           outcome.messages[i].value = Val(args.time)

\* The rendering of a minute count as the claim states it.
Rendered(n) ==
  LET H == n \div 60
      M == n % 60
  IN CASE H > 0 /\ M > 0 -> IntToChars(H) \o <<"h", " ">> \o IntToChars(M) \o <<"m">>
       [] H > 0 /\ M = 0 -> IntToChars(H) \o <<"h">>
       [] H = 0 /\ M > 0 -> IntToChars(M) \o <<"m">>
       [] n = 0 -> <<"0", "m">>

RECURSIVE PageMinutes(_, _)
PageMinutes(data, i) ==
  IF i > Len(data) THEN 0 ELSE data[i].attributes.time + PageMinutes(data, i + 1)

\* C23: one rendering rule for every duration shown.  The preview shows the
\* parsed minutes and billable minutes by it, the confirmation the minutes of
\* the created entry, and list_time_entries each entry of the page and, as the
\* total, the sum of the minutes of exactly the entries of the page.
C23_OneRenderingRule ==
  /\ (IsCreateCall /\ outcome.kind = "preview") =>
       /\ outcome.time = Rendered(ParsedDuration(Val(args.time)).minutes)
       /\ Truthy(args.billable_time) =>
            outcome.billable = Some(Rendered(ParsedDuration(Val(args.billable_time)).minutes))
  /\ (IsCreateCall /\ outcome.kind = "created") =>
       outcome.time = Rendered(Val(response).attributes.time)
  /\ (tool = "list_time_entries" /\ outcome.kind = "listed" /\ Val(response).data # <<>>) =>
       LET data == Val(response).data
       IN /\ Len(outcome.entries) = Len(data)
          /\ \A i \in 1..Len(data) : outcome.entries[i].time = Rendered(data[i].attributes.time)
          /\ outcome.total = Some(Rendered(PageMinutes(data, 1)))

C23_Witness ==
  /\ tool = "list_time_entries" /\ outcome.kind = "listed"
  /\ Len(Val(response).data) = 2
  /\ outcome.total = Some(<<"2", "h">>)
  /\ outcome.entries[1].time = <<"1", "h">>
  /\ Val(response).total_count = None

\* C24: list_project_deals forwards the caller's budget type and chooses none
\* itself.  A budget type other than 1 and 2 fails the call with nothing
\* sent; otherwise the request names a budget type exactly when the caller
\* gave one, and then the caller's.
C24_BudgetTypeForwarded ==
  tool = "list_project_deals" =>
    /\ args.budget_type \notin {None, Some(1), Some(2)} =>
         /\ outcome.kind = "error" /\ outcome.code = "InvalidParams"
         /\ request = None /\ callRequests = 0
    /\ IsSome(request) =>
         /\ args.budget_type \in {None, Some(1), Some(2)}
         /\ Val(request).payload.budget_type = args.budget_type
    /\ (args.budget_type \in {None, Some(1), Some(2)} /\ Truthy(args.project_id)) =>
         IsSome(request) /\ callRequests = 1

C24_Witness ==
  /\ tool = "list_project_deals"
  /\ args.budget_type = None
  /\ IsSome(request) /\ Val(request).payload.budget_type = None
  /\ outcome.kind = "listed"

\* C25: each selection step needs the identifier of its parent.  Without a
\* project_id (absent or empty) list_project_deals fails with nothing sent,
\* and so does list_deal_services without a deal_id; with the identifier, the
\* one request is filtered by exactly that identifier.
C25_ParentIdRequired ==
  /\ tool = "list_project_deals" =>
       IF Truthy(args.project_id)
       THEN IsSome(request) => /\ Val(request).path = "deals"
                               /\ Val(request).payload.project_id = args.project_id
                               /\ Val(request).payload.deal_id = None
       ELSE outcome.kind = "error" /\ request = None /\ callRequests = 0
  /\ tool = "list_deal_services" =>
       IF Truthy(args.deal_id)
       THEN /\ callRequests = 1 /\ IsSome(request)
            /\ Val(request).path = "services"
            /\ Val(request).payload.deal_id = args.deal_id
            /\ Val(request).payload.project_id = None
       ELSE outcome.kind = "error" /\ request = None /\ callRequests = 0

C25_Witness ==
  /\ tool = "list_deal_services"
  /\ args.deal_id = Some("D1")
  /\ Val(request).payload.deal_id = Some("D1")
  /\ outcome.kind = "listed"

\* C27: a confirmed call that follows a preview of the same arguments sends
\* what the preview showed: the date, the minutes and the billable minutes
\* (as the preview renders them), the person and the service, whatever time
\* passed between the two calls.
C27_ConfirmCommitsPreview ==
  (IsCreateCall /\ ConfirmFlag(args) /\ IsSome(shown) /\ SentCreate) =>
    LET sent == SentDraft(Val(request))
        preview == Val(shown)
    IN /\ sent.date = preview.date
       /\ timeDisplay(sent.minutes) = preview.time
       /\ IsSome(sent.billable) <=> IsSome(preview.billable)
       /\ IsSome(sent.billable) => timeDisplay(Val(sent.billable)) = Val(preview.billable)
       /\ sent.person = preview.person
       /\ sent.service = preview.service

\* C30: the rendering of n minutes, given to the duration parser, is accepted
\* and gives n again exactly when it has one unit (n < 60 or n a multiple of
\* 60); the rendering with two units ("1h 30m") is refused as malformed.
C30_RenderParseRoundTrip ==
  \A n \in 0..MaxMinutes :
    (durInput = timeDisplay(n) /\ IsSome(durResult)) =>
      IF n < 60 \/ n % 60 = 0
      THEN Val(durResult).ok /\ Val(durResult).minutes = n
      ELSE /\ ~Val(durResult).ok
           /\ Val(durResult).message = "Invalid time format"

C30_Witness ==
  /\ durInput = timeDisplay(90)
  /\ durInput = <<"1", "h", " ", "3", "0", "m">>
  /\ IsSome(durResult) /\ ~Val(durResult).ok

\* The sprint names given, a single name counting as a list of one.
GivenSprints(a) ==
  IF Val(a.sprints).kind = "array" THEN Val(a.sprints).value ELSE <<Val(a.sprints).text>>

\* The name is one of S01..S10, whatever the case of its letter: the number
\* it carries when it is, 0 when it is not.
SprintNumber(name) ==
  IF Len(name) = 3 /\ toLowerCase(name)[1] = "s" /\ name[2] \in Digit /\ name[3] \in Digit
     /\ parseInt(SubSeq(name, 2, 3)) \in 1..10
  THEN parseInt(SubSeq(name, 2, 3)) ELSE 0

\* The id of sprint number k: 231230 + k.
SprintIdOf(k) == IntToChars(231230 + k)

\* C29: update_task_sprint checks every name before it writes.  With a name
\* that is not one of S01..S10 the call fails with InvalidParams and sends
\* nothing; otherwise it sends exactly one update carrying the ids of the
\* names in the order given, an empty list sending one update with no ids.
\* The sprints of the task change only by an update that was sent and
\* accepted, and then to the ids sent.
C29_SprintsValidatedBeforeWrite ==
  /\ []((tool = "update_task_sprint" /\ IsSome(args.task_id) /\ IsSome(args.sprints)) =>
          LET names == GivenSprints(args)
          IN IF \E i \in 1..Len(names) : SprintNumber(names[i]) = 0
             THEN /\ outcome.kind = "error" /\ outcome.code = "InvalidParams"
                  /\ request = None /\ callRequests = 0 /\ pc = "idle"
             ELSE /\ callRequests = 1 /\ IsSome(request)
                  /\ Val(request).method = "PATCH"
                  /\ Val(request).payload.id = Val(args.task_id)
                  /\ Val(request).payload.sprints =
                       [i \in 1..Len(names) |-> SprintIdOf(SprintNumber(names[i]))])
  /\ [][taskSprints' # taskSprints =>
          /\ IsSome(request) /\ callRequests = 1
          /\ taskSprints' = Val(request).payload.sprints]_vars

C29_Witness ==
  /\ tool = "update_task_sprint" /\ IsSome(args.task_id) /\ IsSome(args.sprints)
  /\ GivenSprints(args) = <<<<"s", "0", "4">>, <<"S", "1", "0">>>>
  /\ Val(request).payload.sprints = <<SprintId("3", "4"), SprintId("4", "0")>>
  /\ outcome.kind = "updated"
  /\ taskSprints = <<SprintId("3", "4"), SprintId("4", "0")>>

IsBacklog(name) == toLowerCase(name) = backlogText

Methods(sent) == [i \in 1..Len(sent) |-> sent[i].method]

CountOf(sent, method) == Cardinality({i \in 1..Len(sent) : sent[i].method = method})

\* What both readings of C26 share: within one add_to_backlog call at most one
\* request is in flight, and no read (GET) follows a write.
OneAtATimeReadsFirst(call) ==
  /\ Len(call.inflight) <= 1
  /\ call.pc \in {"idle", "done"} => call.inflight = <<>>
  /\ \A i, j \in 1..Len(call.sent) :
       (i < j /\ call.sent[i].method # "GET") => call.sent[j].method # "GET"

\* C26 as claimed: the requests of an add_to_backlog call go one at a time,
\* the reads before the write, and a successful call has sent exactly one
\* mutating request.
C26_OneWritePerCall ==
  \A c \in 1..MaxCalls :
    /\ OneAtATimeReadsFirst(calls[c])
    /\ calls[c].outcome.kind = "moved" =>
         Len(calls[c].sent) - CountOf(calls[c].sent, "GET") = 1

\* C26 as amended: the requests of an add_to_backlog call go one at a time,
\* the reads before the writes.  The writes are the creation of the Backlog
\* list (POST), sent at most once, after every board was read and only when no
\* list read was named backlog, and the move of the task (PATCH), sent last
\* and at most once.  A successful call has sent the move, and the creation
\* exactly when no list it read was named backlog.
C26_ReadsThenOneOrTwoWrites ==
  \A c \in 1..MaxCalls :
    LET call == calls[c]
        foundNone == \A i \in 1..Len(call.read) : ~IsBacklog(call.read[i])
    IN /\ OneAtATimeReadsFirst(call)
       /\ CountOf(call.sent, "POST") <= 1
       /\ CountOf(call.sent, "PATCH") <= 1
       /\ \A i \in 1..Len(call.sent) : call.sent[i].method = "PATCH" => i = Len(call.sent)
       /\ CountOf(call.sent, "POST") = 1 =>
            foundNone /\ CountOf(call.sent, "GET") = 1 + Len(call.boards)
       /\ call.outcome.kind = "moved" =>
            /\ CountOf(call.sent, "PATCH") = 1
            /\ CountOf(call.sent, "POST") = 1 <=> foundNone

C26_Witness ==
  \E c \in 1..MaxCalls :
    /\ calls[c].outcome.kind = "moved"
    /\ Methods(calls[c].sent) = <<"GET", "GET", "GET", "POST", "PATCH">>
    /\ Len(upstream.lists) = 2 /\ upstream.taskList = Some(2)

\* C28: in a project that had no task list named backlog, the add_to_backlog
\* calls together have created at most one Backlog list, however their
\* requests interleave.
C28_AtMostOneBacklogCreated ==
  (\A i \in 1..Len(upstream.lists) :
     upstream.lists[i].by = 0 => ~IsBacklog(upstream.lists[i].name)) =>
    Cardinality({i \in 1..Len(upstream.lists) :
                   upstream.lists[i].by # 0 /\ IsBacklog(upstream.lists[i].name)}) <= 1

====
